---- MODULE Spec2Model ----
(***************************************************************************)
(* Declaration checking of lib/Sema/TypeCheckDecl.cpp as a state machine.  *)
(*                                                                         *)
(* Two parts share the module, each with its own specification:            *)
(*   SpecInh   inheritance-clause resolution of one declaration            *)
(*             (checkInheritanceClause and the entry points reaching it);  *)
(*   SpecCtor  implicit struct constructors (addImplicitConstructors,      *)
(*             defineDefaultConstructor, definePendingImplicitDecls);      *)
(*   SpecInit  isDefaultInitializable as a function of a type and of the   *)
(*             constructors visible on it;                                 *)
(*   SpecAttr  validateAttributes on one value declaration;                *)
(*   SpecWalk  checkObjCConformances over a graph of conformances, one     *)
(*             call of checkObjCConformance per step (SpecWalkFair: the    *)
(*             walk keeps running);                                        *)
(*   SpecPass  the visits of the declarations of a translation unit in     *)
(*             their passes: inheritance clauses and conformances;         *)
(*   SpecBind  the visits of a pattern binding in its passes;              *)
(*   SpecProto the visits of the protocols of a translation unit;          *)
(*   SpecMember the visits of the members of a union.                      *)
(* A part leaves the other parts' variables untouched.                     *)
(***************************************************************************)
EXTENDS Naturals, Integers, Sequences, FiniteSets, TLC

VARIABLES
  decl,      \* the declaration whose inheritance clause is resolved
  lastRun,   \* what the last call of checkInheritanceClause did
  calls,     \* number of calls of checkInheritanceClause so far
  op,        \* the entry point of the last call
  structs,   \* the structs of the translation unit: members and bookkeeping
  needing,   \* TypeChecker::structsNeedingImplicitDefaultConstructor
  pendingList, \* TypeChecker::structsWithImplicitDefaultConstructor
  implicitFns, \* TypeChecker::implicitlyDefinedFunctions
  ctorLog,   \* history of the constructor passes
  query,     \* the type isDefaultInitializable is asked about
  answer,    \* what isDefaultInitializable returned, and its initializer
  VD,        \* the value declaration whose attributes are validated
  attrLog,   \* the calls of validateAttributes and their diagnostics
  walk,      \* checkObjCConformances: the conformances and the calls pending
  unit,      \* the declarations of a translation unit, with their members
  passLog,   \* the visits made, and what they asked the conformance checker
  PBD,       \* visitPatternBindingDecl: the pattern binding
  bindLog,   \* the visits of the binding and the expressions type-checked
  protocolDecls, \* visitProtocolDecl: the protocols of the unit
  protoLog,  \* the protocols visited and the diagnostics emitted
  container, \* the members of a union, as the visits leave them
  memberLog  \* the mode of the visit and the members visited so far

inhVars == <<decl, lastRun, calls, op>>
ctorVars == <<structs, needing, pendingList, implicitFns, ctorLog>>
initVars == <<query, answer>>
attrVars == <<VD, attrLog>>
passVars == <<unit, passLog>>
bindVars == <<PBD, bindLog>>
protoVars == <<protocolDecls, protoLog>>
memberVars == <<container, memberLog>>
laterVars ==
  <<initVars, attrVars, walk, passVars, bindVars, protoVars, memberVars>>
vars == <<decl, lastRun, calls, op, structs, needing, pendingList, implicitFns,
          ctorLog, query, answer, VD, attrLog, walk, unit, passLog,
          PBD, bindLog, protocolDecls, protoLog, container,
          memberLog>>

\* ------------------------------------------------------------------ bounds
MaxClauseLen == 3
MaxCalls == 2

\* ------------------------------------------------------- sequence helpers
RECURSIVE SeqToSet(_)
SeqToSet(s) == IF s = <<>> THEN {} ELSE {Head(s)} \cup SeqToSet(Tail(s))

SeqsUpTo(S, n) == UNION {[1..k -> S] : k \in 0..n}

\* llvm::SmallSetVector::insert over a range: append each element that is
\* not yet present, keeping insertion order.
RECURSIVE SetVectorInsert(_, _)
SetVectorInsert(acc, xs) ==
  IF xs = <<>> THEN acc
  ELSE SetVectorInsert(IF Head(xs) \in SeqToSet(acc) THEN acc
                       ELSE Append(acc, Head(xs)), Tail(xs))

\* ---------------------------------------------------- the written types
\* The type references an inheritance clause can hold.  "P" and "Q" are
\* protocols, "PQ" is the composition protocol<P, Q>, "A", "B" and "C" are
\* classes, "AliasA" is a type alias of class A, "Int" is a struct, "Err"
\* resolves to the error type, and "Bad" does not resolve at all.
TypeNames == {"P", "Q", "PQ", "A", "B", "C", "AliasA", "Int", "Err", "Bad"}
NoType == "None"

\* TypeChecker::validateType: TRUE when validation fails.
ValidateTypeFails(t) == t = "Bad"

\* TypeBase::getCanonicalType: sugar is looked through.
CanonicalType(t) == IF t = "AliasA" THEN "A" ELSE t

\* TypeBase::isExistentialType(protocols): the protocols of an existential.
ExistentialProtocols(t) ==
  CASE t = "P" -> <<"P">>
    [] t = "Q" -> <<"Q">>
    [] t = "PQ" -> <<"P", "Q">>
    [] OTHER -> <<>>

isExistentialType(t) == t \in {"P", "Q", "PQ"}
getClassOrBoundGenericClass(t) == t \in {"A", "B", "C", "AliasA"}
isErrorType(t) == t = "Err"

\* ------------------------------------------------------- the declaration
DeclKinds == {"Class", "Struct", "Union", "Protocol", "Extension",
              "TypeAlias", "AssocType", "GenericParam"}

isNominalTypeDecl(d) == d.kind \in {"Class", "Struct", "Union", "Protocol"}
isTypeAliasDecl(d) == d.kind \in {"TypeAlias", "AssocType", "GenericParam"}

NewDecl(k, clause) ==
  [kind |-> k,
   inherited |-> clause,
   invalid |-> [i \in 1..Len(clause) |-> FALSE],
   protocols |-> <<>>,
   superclass |-> NoType,
   conformances |-> <<>>]

\* Mutant of canInheritClass: every type alias can inherit a class.
canInheritClassAnyAlias(d) == d.kind = "Class" \/ isTypeAliasDecl(d)

canInheritClass(d) == d.kind \in {"Class", "GenericParam"}

alreadyCheckedInheritanceClause(d) ==
  IF d.kind = "Extension" THEN d.protocols # <<>>
  ELSE IF isNominalTypeDecl(d)
       THEN IF d.protocols # <<>> THEN TRUE
            ELSE IF d.kind = "Class" THEN d.superclass # NoType
            ELSE FALSE
  ELSE IF d.protocols # <<>> THEN TRUE
  ELSE d.kind = "GenericParam" /\ d.superclass # NoType

\* ------------------------------------------- checkInheritanceClause: loop
\* The locals of the loop: superclassTy, allProtocols, inheritedTypes, and
\* what the loop did to the outside (diagnostics, entries marked invalid,
\* calls of validateType).  A diagnostic is <<kind, index of the entry>>.
LoopStart(d) ==
  [superclassTy |-> NoType,
   allProtocols |-> <<>>,
   inheritedTypes |-> {},
   diags |-> <<>>,
   invalid |-> d.invalid,
   validated |-> 0]

Diagnose(acc, kind, i) == [acc EXCEPT !.diags = Append(@, <<kind, i>>)]

\* Mutant of ClassEntry: a class that is not the first entry is diagnosed
\* and not recorded.
ClassEntryRejectsLate(d, acc, i, ty) ==
  IF acc.superclassTy # NoType
  THEN Diagnose(acc, "multiple_inheritance", i)
  ELSE IF ~canInheritClass(d)
  THEN Diagnose(acc, IF d.kind = "Extension"
                     THEN "extension_class_inheritance"
                     ELSE "non_class_inheritance", i)
  ELSE IF i > 0 THEN Diagnose(acc, "superclass_not_first", i)
  ELSE [acc EXCEPT !.superclassTy = ty]

\* Mutant of ClassEntry: a later class replaces the recorded superclass.
ClassEntryKeepsLast(d, acc, i, ty) ==
  IF ~canInheritClass(d)
  THEN Diagnose(acc, IF d.kind = "Extension"
                     THEN "extension_class_inheritance"
                     ELSE "non_class_inheritance", i)
  ELSE [(IF acc.superclassTy # NoType
         THEN Diagnose(acc, "multiple_inheritance", i)
         ELSE IF i > 0 THEN Diagnose(acc, "superclass_not_first", i) ELSE acc)
         EXCEPT !.superclassTy = ty]

\* The class-type branch of the loop body, entry i (0-based) of type ty.
ClassEntry(d, acc, i, ty) ==
  IF acc.superclassTy # NoType
  THEN Diagnose(acc, "multiple_inheritance", i)
  ELSE IF ~canInheritClass(d)
  THEN Diagnose(acc, IF d.kind = "Extension"
                     THEN "extension_class_inheritance"
                     ELSE "non_class_inheritance", i)
  ELSE [(IF i > 0 THEN Diagnose(acc, "superclass_not_first", i) ELSE acc)
         EXCEPT !.superclassTy = ty]

\* Mutant of IsKnownType: the types are compared as written.
IsKnownTypeAsWritten(acc, ty) == ty \in acc.inheritedTypes

\* Whether entry ty repeats a type the loop has already seen.
IsKnownType(acc, ty) == CanonicalType(ty) \in acc.inheritedTypes

\* One iteration of the loop, entry i (0-based).
LoopBody(d, acc0, i) ==
  LET ty == d.inherited[i + 1]
      acc == [acc0 EXCEPT !.validated = @ + 1]
  IN IF ValidateTypeFails(ty)
     THEN [acc EXCEPT !.invalid[i + 1] = TRUE]
     ELSE IF IsKnownType(acc, ty)
     THEN Diagnose(acc, "duplicate_inheritance", i)
     ELSE LET acc1 == [acc EXCEPT !.inheritedTypes = @ \cup {CanonicalType(ty)}]
          IN IF isExistentialType(ty)
             THEN [acc1 EXCEPT !.allProtocols =
                                 SetVectorInsert(@, ExistentialProtocols(ty))]
             ELSE IF getClassOrBoundGenericClass(ty)
             THEN ClassEntry(d, acc1, i, ty)
             ELSE IF isErrorType(ty)
             THEN acc1
             ELSE Diagnose(acc1, IF canInheritClass(d)
                                 THEN "inheritance_from_non_protocol_or_class"
                                 ELSE "inheritance_from_non_protocol", i)

RECURSIVE Loop(_, _, _)
Loop(d, acc, i) ==
  IF i = Len(d.inherited) THEN acc ELSE Loop(d, LoopBody(d, acc, i), i + 1)

\* ----------------------------------------- checkInheritanceClause: commit
\* Mutant of FillsNullConformances: every type alias gets null conformances.
FillsNullConformancesForAliases(d) == d.kind = "Protocol" \/ isTypeAliasDecl(d)

\* Whether the null conformances are filled in for this declaration.
FillsNullConformances(d) == d.kind \in {"Protocol", "AssocType", "GenericParam"}

\* Mutant of NothingToRecord: the result is always committed.
AlwaysRecords(acc) == FALSE

\* Whether the loop found nothing to record.
NothingToRecord(acc) == acc.allProtocols = <<>> /\ acc.superclassTy = NoType

\* The declaration after the loop, and the fields written.
Commit(d, acc) ==
  LET d0 == [d EXCEPT !.invalid = acc.invalid]
  IN IF NothingToRecord(acc)
     THEN [d |-> d0, writes |-> {}]
     ELSE IF d.kind = "Extension"
     THEN [d |-> [d0 EXCEPT !.protocols = acc.allProtocols],
           writes |-> {"protocols"}]
     ELSE LET d1 == [d0 EXCEPT !.protocols = acc.allProtocols]
              d2 == IF acc.superclassTy # NoType
                    THEN [d1 EXCEPT !.superclass = acc.superclassTy]
                    ELSE d1
              d3 == IF FillsNullConformances(d)
                    THEN [d2 EXCEPT !.conformances =
                             [k \in 1..Len(acc.allProtocols) |-> "null"]]
                    ELSE d2
          IN [d |-> d3,
              writes |-> {"protocols"}
                 \cup (IF acc.superclassTy # NoType THEN {"superclass"} ELSE {})
                 \cup (IF FillsNullConformances(d) THEN {"conformances"} ELSE {})]

\* The assertion or cast that fails while the result is committed, if any.
CommitTrap(d, acc) ==
  IF NothingToRecord(acc) \/ acc.superclassTy = NoType THEN "none"
  ELSE IF d.kind = "Extension" THEN "assert: Extensions can't add superclasses"
  ELSE IF d.kind # "Class" /\ ~isTypeAliasDecl(d) THEN "cast<TypeAliasDecl>"
  ELSE "none"

\* The record of a call: the diagnostics it emitted, the number of entries
\* it validated, the fields it wrote, whether it ran the loop, and the
\* assertion that failed.
NoRun ==
  [diags |-> <<>>, validated |-> 0, writes |-> {}, looped |-> FALSE,
   trap |-> "none"]

\* Mutant of checkInheritanceClause: no already-checked test, and the
\* protocols found are appended to the declaration's list in place.
checkInheritanceClauseInPlace(d) ==
  LET acc == Loop(d, LoopStart(d), 0)
      c == Commit(d, [acc EXCEPT !.allProtocols = d.protocols \o @])
  IN [d |-> c.d,
      run |-> [diags |-> acc.diags, validated |-> acc.validated,
               writes |-> c.writes, looped |-> TRUE,
               trap |-> CommitTrap(d, acc)]]

\* checkInheritanceClause(tc, decl): the declaration and the call's record.
checkInheritanceClause(d) ==
  IF alreadyCheckedInheritanceClause(d)
  THEN [d |-> d, run |-> NoRun]
  ELSE LET acc == Loop(d, LoopStart(d), 0)
           c == Commit(d, acc)
       IN [d |-> c.d,
           run |-> [diags |-> acc.diags, validated |-> acc.validated,
                    writes |-> c.writes, looped |-> TRUE,
                    trap |-> CommitTrap(d, acc)]]

\* ------------------------------------------------ the entry points (SpecInh)
\* The callers of checkInheritanceClause.  Each is enabled for the kinds of
\* declaration it reaches:
\*   the structural pass of visitTypeAliasDecl (outside a protocol),
\*   visitUnionDecl, visitStructDecl, visitClassDecl and visitExtensionDecl;
\*   checkGenericParams, for each generic parameter;
\*   preCheckProtocol, for the protocol and its associated types;
\*   getDirectConformsTo, for a nominal type or an extension.
CheckOps == {"structuralPass", "checkGenericParams", "preCheckProtocol",
             "getDirectConformsTo"}

Call(name) ==
  /\ calls < MaxCalls
  /\ LET r == checkInheritanceClause(decl)
     IN /\ decl' = r.d
        /\ lastRun' = r.run
  /\ calls' = calls + 1
  /\ op' = name
  /\ UNCHANGED <<ctorVars, laterVars>>

StructuralPass ==
  /\ decl.kind \in {"TypeAlias", "Union", "Struct", "Class", "Extension"}
  /\ Call("structuralPass")

CheckGenericParams ==
  /\ decl.kind = "GenericParam"
  /\ Call("checkGenericParams")

PreCheckProtocol ==
  /\ decl.kind \in {"Protocol", "AssocType"}
  /\ Call("preCheckProtocol")

GetDirectConformsTo ==
  /\ (isNominalTypeDecl(decl) \/ decl.kind = "Extension")
  /\ Call("getDirectConformsTo")

\* =========================================================================
\* Implicit struct constructors (SpecCtor)
\* =========================================================================
MaxFields == 2
MaxFinals == 2

StructNames == {"S1", "S2"}
OtherStruct(s) == IF s = "S1" THEN "S2" ELSE "S1"

\* Canonical types, by TypeKind.  elts holds a tuple's fields, or the
\* referent of a reference-storage type as its only element.
Ty(k) == [kind |-> k, name |-> "", elts |-> <<>>]
StructTy(s) == [kind |-> "Struct", name |-> s, elts |-> <<>>]
BuiltinTy == Ty("BuiltinInteger")
ProtocolTy == Ty("Protocol")
NoTy == Ty("None")

\* The members of a struct, as records of one shape.
PatternBinding(n, init) ==
  [k |-> "PatternBinding", name |-> "", vars |-> <<n>>, ty |-> NoTy,
   isProperty |-> FALSE, hasInit |-> init, implicit |-> FALSE,
   ick |-> "None", params |-> <<>>, typed |-> FALSE, hasBody |-> FALSE]

Var(n, t, prop) ==
  [k |-> "Var", name |-> n, vars |-> <<>>, ty |-> t,
   isProperty |-> prop, hasInit |-> FALSE, implicit |-> FALSE,
   ick |-> "None", params |-> <<>>, typed |-> TRUE, hasBody |-> FALSE]

Constructor(ps, isImplicit, kind, isTyped, body) ==
  [k |-> "Constructor", name |-> "constructor", vars |-> <<>>, ty |-> NoTy,
   isProperty |-> FALSE, hasInit |-> FALSE, implicit |-> isImplicit,
   ick |-> kind, params |-> ps, typed |-> isTyped, hasBody |-> body]

Param(n, t, init) == [name |-> n, ty |-> t, hasInit |-> init]

\* ------------------------------------------------------------- the inputs
\* A field as written: var name : ty, stored or computed, with or without an
\* initializer.  It parses to a PatternBindingDecl followed by its VarDecl.
FieldShapes(s) ==
  { [ty |-> BuiltinTy, isProperty |-> FALSE, hasInit |-> FALSE],
    [ty |-> ProtocolTy, isProperty |-> FALSE, hasInit |-> FALSE],
    [ty |-> StructTy(OtherStruct(s)), isProperty |-> FALSE, hasInit |-> FALSE],
    [ty |-> ProtocolTy, isProperty |-> FALSE, hasInit |-> TRUE],
    [ty |-> BuiltinTy, isProperty |-> TRUE, hasInit |-> FALSE] }

FieldNames == <<"x", "y", "z", "w">>

\* The constructors the user wrote: none, constructor(), constructor(v : T).
UserCtors == {"none", "zero", "one"}

\* S2 is drawn from shorter field lists than S1.
FieldBound(s) == IF s = "S1" THEN MaxFields ELSE MaxFields - 1

RECURSIVE FieldMembers(_, _)
FieldMembers(fields, i) ==
  IF i > Len(fields) THEN <<>>
  ELSE <<PatternBinding(FieldNames[i], fields[i].hasInit),
         Var(FieldNames[i], fields[i].ty, fields[i].isProperty)>>
       \o FieldMembers(fields, i + 1)

ParsedMembers(fields, uc) ==
  FieldMembers(fields, 1)
    \o (CASE uc = "none" -> <<>>
          [] uc = "zero" -> <<Constructor(<<>>, FALSE, "User", FALSE, TRUE)>>
          [] uc = "one" -> <<Constructor(<<Param("v", BuiltinTy, FALSE)>>,
                                         FALSE, "User", FALSE, TRUE)>>)

\* --------------------------------------------------- member list queries
RECURSIVE SelectMembers(_, _)
SelectMembers(ms, kinds) ==
  IF ms = <<>> THEN <<>>
  ELSE (IF Head(ms).k \in kinds THEN <<Head(ms)>> ELSE <<>>)
       \o SelectMembers(Tail(ms), kinds)

\* The VarDecl a pattern names.
VarNamed(ms, n) == CHOOSE m \in SeqToSet(ms) : m.k = "Var" /\ m.name = n

\* ValueDecl::getTypeOfRValue of a stored variable.
getTypeOfRValue(v) == v.ty

\* ----------------------------------------------- createImplicitConstructor
\* Mutant of MemberwiseParams: properties get a parameter too.
RECURSIVE MemberwiseParamsOfAllVars(_)
MemberwiseParamsOfAllVars(ms) ==
  IF ms = <<>> THEN <<>>
  ELSE (IF Head(ms).k = "Var"
        THEN <<Param(Head(ms).name, getTypeOfRValue(Head(ms)), FALSE)>>
        ELSE <<>>)
       \o MemberwiseParamsOfAllVars(Tail(ms))

\* The memberwise parameters: one per VarDecl member that is no property, in
\* member order, named and typed as the variable.
RECURSIVE MemberwiseParams(_)
MemberwiseParams(ms) ==
  IF ms = <<>> THEN <<>>
  ELSE (IF Head(ms).k = "Var" /\ ~Head(ms).isProperty
        THEN <<Param(Head(ms).name, getTypeOfRValue(Head(ms)), FALSE)>>
        ELSE <<>>)
       \o MemberwiseParams(Tail(ms))

\* The constructor is type-checked (typeCheckDecl) before it is returned.
createImplicitConstructor(ms, ICK) ==
  Constructor(IF ICK = "Memberwise" THEN MemberwiseParams(ms) ELSE <<>>,
              TRUE, ICK, TRUE, FALSE)

\* ------------------------------------------------ addImplicitConstructors
\* Mutant of ScanMembers: only a constructor the user wrote counts.
RECURSIVE ScanMembersForUserConstructor(_, _)
ScanMembersForUserConstructor(ms, found) ==
  IF ms = <<>> THEN found
  ELSE IF Head(ms).k = "Constructor" /\ ~Head(ms).implicit
  THEN [found EXCEPT !.FoundConstructor = TRUE]
  ELSE ScanMembersForUserConstructor(Tail(ms),
                   IF Head(ms).k = "Var" /\ ~Head(ms).isProperty
                   THEN [found EXCEPT !.FoundInstanceVar = TRUE]
                   ELSE found)

\* The scan of the members: stops at the first constructor.
RECURSIVE ScanMembers(_, _)
ScanMembers(ms, found) ==
  IF ms = <<>> THEN found
  ELSE IF Head(ms).k = "Constructor"
  THEN [found EXCEPT !.FoundConstructor = TRUE]
  ELSE ScanMembers(Tail(ms),
                   IF Head(ms).k = "Var" /\ ~Head(ms).isProperty
                   THEN [found EXCEPT !.FoundInstanceVar = TRUE]
                   ELSE found)

FoundNothing == [FoundConstructor |-> FALSE, FoundInstanceVar |-> FALSE]

\* st holds the checker's state: structs, needing, pendingList, implicitFns
\* and the history (decided, trap).
addImplicitConstructors(st, s) ==
  LET ms == st.structs[s]
      found == ScanMembers(ms, FoundNothing)
  IN IF found.FoundConstructor THEN st
     ELSE LET ctor == createImplicitConstructor(ms, "Memberwise")
              st1 == [st EXCEPT !.structs[s] = Append(ms, ctor)]
          IN IF found.FoundInstanceVar
             THEN [st1 EXCEPT
                     !.trap = IF s \in st.needing
                              THEN "assert: struct already pending" ELSE @,
                     !.needing = @ \cup {s},
                     !.pendingList = Append(@, s)]
             ELSE st1

\* ------------------------------------------------- isDefaultInitializable
ConstructorKinds == {"Archetype", "BoundGenericStruct", "BoundGenericUnion",
                     "Union", "Struct"}
BuiltinKinds == {"BuiltinFloat", "BuiltinInteger", "BuiltinObjCPointer",
                 "BuiltinObjectPointer", "BuiltinRawPointer", "BuiltinVector"}

\* TypeChecker::lookupConstructors: the constructors visible on a type, here
\* the constructor members of the declaration it names.
lookupConstructors(ty, ss) ==
  IF ty.kind \in ConstructorKinds /\ ty.name \in DOMAIN ss
  THEN SelectMembers(ss[ty.name], {"Constructor"})
  ELSE <<>>

\* Whether some element of the parameter tuple has no default value.
RECURSIVE MissingInit(_)
MissingInit(ps) ==
  IF ps = <<>> THEN FALSE
  ELSE IF Head(ps).hasInit THEN MissingInit(Tail(ps)) ELSE TRUE

\* Mutant of CountDefaultConstructors: a further constructor callable with
\* an empty tuple is accepted.
RECURSIVE CountDefaultConstructorsFirstWins(_, _)
CountDefaultConstructorsFirstWins(ctors, foundDefaultConstructor) ==
  IF ctors = <<>> THEN (IF foundDefaultConstructor THEN "one" ELSE "none")
  ELSE IF MissingInit(Head(ctors).params)
  THEN CountDefaultConstructorsFirstWins(Tail(ctors), foundDefaultConstructor)
  ELSE CountDefaultConstructorsFirstWins(Tail(ctors), TRUE)

\* The loop over the constructors found: "two" once a second constructor
\* callable with an empty tuple is met (the early return false).
RECURSIVE CountDefaultConstructors(_, _)
CountDefaultConstructors(ctors, foundDefaultConstructor) ==
  IF ctors = <<>> THEN (IF foundDefaultConstructor THEN "one" ELSE "none")
  ELSE IF MissingInit(Head(ctors).params)
  THEN CountDefaultConstructors(Tail(ctors), foundDefaultConstructor)
  ELSE IF foundDefaultConstructor THEN "two"
  ELSE CountDefaultConstructors(Tail(ctors), TRUE)

\* The initializer expressions isDefaultInitializable builds.  NoExpr is the
\* null pointer: no initializer was asked for, or none was produced.
NoExpr == [e |-> "null", ty |-> NoTy, elts |-> <<>>, names |-> <<>>]
ZeroValueExpr(ty) ==
  [e |-> "ZeroValue", ty |-> ty, elts |-> <<>>, names |-> <<>>]
TupleExpr(eltInits, eltNames) ==
  [e |-> "Tuple", ty |-> NoTy, elts |-> eltInits, names |-> eltNames]
\* CallExpr(MetatypeExpr(ty), TupleExpr({})): the default constructor called
\* with an empty tuple.
CallExpr(ty) ==
  [e |-> "Call", ty |-> ty, elts |-> <<TupleExpr(<<>>, <<>>)>>, names |-> <<>>]

NotInitializable == [result |-> FALSE, initializer |-> NoExpr]
Initializable(want, expr) ==
  [result |-> TRUE, initializer |-> IF want THEN expr ELSE NoExpr]

\* Mutant of UseSoleInitializer: a single element is used as it is, named
\* or not.
UseSoleInitializerNamedToo(eltInits, eltNames) == Len(eltInits) = 1

\* Whether the initializer of a tuple is its sole element's initializer.
UseSoleInitializer(eltInits, eltNames) ==
  Len(eltInits) = 1 /\ eltNames[1] = ""

\* isDefaultInitializable(ty, initializer), with want saying whether the
\* caller passed a place for the initializer.  TupleFields is the loop over
\* the fields of a tuple type from field i on.
RECURSIVE isDefaultInitializableExpr(_, _, _)
RECURSIVE TupleFields(_, _, _, _, _, _)
TupleFields(ty, ss, want, i, eltInits, eltNames) ==
  IF i > Len(ty.elts)
  THEN Initializable(want,
                     IF UseSoleInitializer(eltInits, eltNames)
                     THEN eltInits[1]
                     ELSE TupleExpr(eltInits, eltNames))
  ELSE LET elt == isDefaultInitializableExpr(ty.elts[i].ty, ss, want)
       IN IF ~elt.result THEN NotInitializable
          ELSE IF want
          THEN TupleFields(ty, ss, want, i + 1,
                           Append(eltInits, elt.initializer),
                           Append(eltNames, ty.elts[i].name))
          ELSE TupleFields(ty, ss, want, i + 1, eltInits, eltNames)

isDefaultInitializableExpr(ty, ss, want) ==
  CASE ty.kind \in ConstructorKinds ->
         IF CountDefaultConstructors(lookupConstructors(ty, ss), FALSE) = "one"
         THEN Initializable(want, CallExpr(ty))
         ELSE NotInitializable
    [] ty.kind = "Array" -> NotInitializable
    [] ty.kind \in {"BoundGenericClass", "Class"} ->
         Initializable(want, ZeroValueExpr(ty))
    [] ty.kind \in {"Protocol", "ProtocolComposition"} -> NotInitializable
    [] ty.kind \in BuiltinKinds -> Initializable(want, ZeroValueExpr(ty))
    [] ty.kind = "Tuple" -> TupleFields(ty, ss, want, 1, <<>>, <<>>)
    [] ty.kind \in {"Function", "LValue", "PolymorphicFunction", "MetaType",
                    "Module"} -> NotInitializable
    [] ty.kind = "ReferenceStorage" ->
         isDefaultInitializableExpr(ty.elts[1].ty, ss, want)
    [] OTHER -> NotInitializable

\* isDefaultInitializable(ty), called without a place for the initializer.
isDefaultInitializable(ty, ss) == isDefaultInitializableExpr(ty, ss, FALSE).result

\* ------------------------------------------------ defineDefaultConstructor
\* Whether every variable of pattern binding pb that is no property can be
\* default-initialized.
VarsDefaultInitializable(pb, ms, ss) ==
  \A i \in 1..Len(pb.vars) :
     LET v == VarNamed(ms, pb.vars[i])
     IN v.isProperty \/ isDefaultInitializable(v.ty, ss)

\* The loop over the members: FALSE at the first initializer-less pattern
\* binding with a variable that cannot be default-initialized.
RECURSIVE AllMembersDefaultInitializable(_, _, _)
AllMembersDefaultInitializable(rest, ms, ss) ==
  IF rest = <<>> THEN TRUE
  ELSE IF Head(rest).k # "PatternBinding" \/ Head(rest).hasInit
  THEN AllMembersDefaultInitializable(Tail(rest), ms, ss)
  ELSE IF VarsDefaultInitializable(Head(rest), ms, ss)
  THEN AllMembersDefaultInitializable(Tail(rest), ms, ss)
  ELSE FALSE

defineDefaultConstructor(st, s) ==
  LET ms == st.structs[s]
      st1 == [st EXCEPT
                !.trap = IF s \notin st.needing
                         THEN "assert: struct not pending" ELSE @,
                !.needing = @ \ {s},
                !.decided[s] = @ + 1]
  IN IF ~AllMembersDefaultInitializable(ms, ms, st.structs)
     THEN st1
     ELSE LET ctor == [createImplicitConstructor(ms, "Default")
                         EXCEPT !.hasBody = TRUE]
          IN [st1 EXCEPT
                !.structs[s] = Append(ms, ctor),
                !.implicitFns = Append(@, [struct |-> s, at |-> Len(ms) + 1])]

\* ---------------------------------------------- definePendingImplicitDecls
\* Mutant of StillNeeded: the final pass defines every listed struct.
AlwaysNeeded(st, s) == TRUE

\* Whether the final pass defines the default constructor of a listed struct.
StillNeeded(st, s) == s \in st.needing

RECURSIVE DefineEach(_, _)
DefineEach(st, list) ==
  IF list = <<>> THEN st
  ELSE DefineEach(IF StillNeeded(st, Head(list))
                  THEN defineDefaultConstructor(st, Head(list))
                  ELSE st, Tail(list))

definePendingImplicitDecls(st) == DefineEach(st, st.pendingList)

\* --------------------------------------------------------- visitStructDecl
Modes == {"FirstPass", "SecondPass", "Single"}
IsFirstPass(mode) == mode = "FirstPass"
IsSecondPass(mode) == mode = "SecondPass"

\* visitConstructorDecl, and the visits of the other members, which leave
\* the modelled fields alone.
visitMember(m, mode) ==
  IF m.k = "Constructor" /\ ~IsSecondPass(mode)
  THEN [m EXCEPT !.typed = TRUE]
  ELSE m

visitStructDecl(st, s, mode) ==
  LET ms == st.structs[s]
      st1 == [st EXCEPT !.structs[s] =
                [i \in 1..Len(ms) |-> visitMember(ms[i], mode)]]
  IN IF ~IsSecondPass(mode) THEN addImplicitConstructors(st1, s) ELSE st1

\* ------------------------------------------------------------ the actions
CheckerState ==
  [structs |-> structs, needing |-> needing, pendingList |-> pendingList,
   implicitFns |-> implicitFns, decided |-> ctorLog.decided,
   trap |-> ctorLog.trap]

Install(st, lastOp, structural) ==
  /\ structs' = st.structs
  /\ needing' = st.needing
  /\ pendingList' = st.pendingList
  /\ implicitFns' = st.implicitFns
  /\ ctorLog' = [lastOp |-> lastOp, structural |-> structural,
                 finals |-> IF lastOp = "final" THEN ctorLog.finals + 1
                            ELSE ctorLog.finals,
                 decided |-> st.decided, trap |-> st.trap]
  /\ UNCHANGED <<inhVars, laterVars>>

VisitStruct ==
  \E s \in StructNames, mode \in Modes :
     Install(visitStructDecl(CheckerState, s, mode), "visit",
             IF IsSecondPass(mode) THEN ctorLog.structural
             ELSE ctorLog.structural \cup {s})

\* The driver runs the final pass once every declaration has had its
\* structural pass.
FinalPass ==
  /\ ctorLog.structural = StructNames
  /\ ctorLog.finals < MaxFinals
  /\ Install(definePendingImplicitDecls(CheckerState), "final",
             ctorLog.structural)

\* --------------------------------------------------------- specifications
NoHistory ==
  [lastOp |-> "none", structural |-> {}, finals |-> 0,
   decided |-> [s \in StructNames |-> 0], trap |-> "none"]

InhIdle ==
  /\ decl = NewDecl("Struct", <<>>)
  /\ lastRun = NoRun
  /\ calls = 0
  /\ op = "none"

CtorIdle ==
  /\ structs = [s \in StructNames |-> <<>>]
  /\ needing = {}
  /\ pendingList = <<>>
  /\ implicitFns = <<>>
  /\ ctorLog = NoHistory

\* No question has been put to isDefaultInitializable.
NoAnswer ==
  [asked |-> FALSE, want |-> FALSE, result |-> FALSE, initializer |-> NoExpr]

InitIdle ==
  /\ query = NoTy
  /\ answer = NoAnswer

\* No declaration is having its attributes validated.
AttrIdle ==
  /\ VD = "none"
  /\ attrLog = "none"

WalkIdle == walk = "none"

PassIdle ==
  /\ unit = "none"
  /\ passLog = "none"

BindIdle ==
  /\ PBD = "none"
  /\ bindLog = "none"

ProtoIdle ==
  /\ protocolDecls = "none"
  /\ protoLog = "none"

MemberIdle ==
  /\ container = "none"
  /\ memberLog = "none"

NewerIdle == ProtoIdle /\ MemberIdle

LaterIdle ==
  InitIdle /\ AttrIdle /\ WalkIdle /\ PassIdle /\ BindIdle /\ NewerIdle

InhInit ==
  /\ \E k \in DeclKinds, clause \in SeqsUpTo(TypeNames, MaxClauseLen) :
        decl = NewDecl(k, clause)
  /\ lastRun = NoRun
  /\ calls = 0
  /\ op = "none"
  /\ CtorIdle
  /\ LaterIdle

CtorInit ==
  /\ \E f1 \in SeqsUpTo(FieldShapes("S1"), FieldBound("S1")),
        f2 \in SeqsUpTo(FieldShapes("S2"), FieldBound("S2")),
        u1 \in UserCtors, u2 \in UserCtors :
        structs = [s \in StructNames |->
                     IF s = "S1" THEN ParsedMembers(f1, u1)
                     ELSE ParsedMembers(f2, u2)]
  /\ needing = {}
  /\ pendingList = <<>>
  /\ implicitFns = <<>>
  /\ ctorLog = NoHistory
  /\ InhIdle
  /\ LaterIdle

InhNext ==
  \/ StructuralPass
  \/ CheckGenericParams
  \/ PreCheckProtocol
  \/ GetDirectConformsTo

CtorNext ==
  \/ VisitStruct
  \/ FinalPass

SpecInh == InhInit /\ [][InhNext]_vars
SpecCtor == CtorInit /\ [][CtorNext]_vars

\* =========================================================================
\* isDefaultInitializable as a function (SpecInit)
\* =========================================================================
MaxTupleLen == 2
MaxCtors == 2

TupleTy(fields) == [kind |-> "Tuple", name |-> "", elts |-> fields]
\* TupleTypeElt: a field of a tuple type, unnamed when n is empty.
Field(n, t) == [name |-> n, ty |-> t]
\* A type whose constructors are looked up: the archetype, struct or union
\* S1, or a bound generic instance of it.
NominalTy(k) == [kind |-> k, name |-> "S1", elts |-> <<>>]
ReferenceStorageTy(t) ==
  [kind |-> "ReferenceStorage", name |-> "", elts |-> <<Field("", t)>>]

\* The fields a tuple type under question is built from.  No field carries
\* a default value (the assertion at the head of the loop over the fields).
TupleFieldChoices ==
  { Field("", BuiltinTy), Field("a", BuiltinTy), Field("", Ty("Class")),
    Field("", ProtocolTy), Field("", StructTy("S1")), Field("b", StructTy("S1")),
    Field("", TupleTy(<<Field("", BuiltinTy)>>)),
    Field("c", TupleTy(<<Field("c", ProtocolTy)>>)),
    Field("", TupleTy(<<Field("", StructTy("S1")), Field("", Ty("Class"))>>)) }

\* The types under question: one of every kind the switch tells apart, and
\* the tuples of up to MaxTupleLen fields.
QueriedTypes ==
  {NominalTy(k) : k \in ConstructorKinds}
    \cup {Ty(k) : k \in {"Array", "BoundGenericClass", "Class", "Protocol",
                         "ProtocolComposition", "Function", "LValue",
                         "PolymorphicFunction", "MetaType", "Module", "Error"}}
    \cup {Ty(k) : k \in BuiltinKinds}
    \cup {ReferenceStorageTy(Ty("Class")), ReferenceStorageTy(StructTy("S1"))}
    \cup {TupleTy(fs) : fs \in SeqsUpTo(TupleFieldChoices, MaxTupleLen)}

\* The parameter tuples of the constructors visible on S1: (), (v = d),
\* (v), (v = d, w).
ParamTuples ==
  { <<>>, <<Param("v", BuiltinTy, TRUE)>>, <<Param("v", BuiltinTy, FALSE)>>,
    <<Param("v", BuiltinTy, TRUE), Param("w", BuiltinTy, FALSE)>> }

VisibleConstructors(pss) ==
  [i \in 1..Len(pss) |-> Constructor(pss[i], FALSE, "User", TRUE, TRUE)]

\* One call of isDefaultInitializable on the type under question.
Ask(want) ==
  /\ ~answer.asked
  /\ LET r == isDefaultInitializableExpr(query, structs, want)
     IN answer' = [asked |-> TRUE, want |-> want, result |-> r.result,
                   initializer |-> r.initializer]
  /\ UNCHANGED <<inhVars, ctorVars, query, attrVars, walk,
                 passVars, bindVars, protoVars, memberVars>>

\* The call of defineDefaultConstructor: no initializer is asked for.
AskResult == Ask(FALSE)
\* The call of visitPatternBindingDecl: the initializer is asked for.
AskInitializer == Ask(TRUE)

InitInit ==
  /\ query \in QueriedTypes
  /\ answer = NoAnswer
  /\ \E pss \in SeqsUpTo(ParamTuples, MaxCtors) :
        structs = [s \in StructNames |->
                     IF s = "S1" THEN VisibleConstructors(pss) ELSE <<>>]
  /\ needing = {}
  /\ pendingList = <<>>
  /\ implicitFns = <<>>
  /\ ctorLog = NoHistory
  /\ InhIdle
  /\ AttrIdle
  /\ WalkIdle
  /\ PassIdle
  /\ BindIdle
  /\ NewerIdle

InitNext ==
  \/ AskResult
  \/ AskInitializer

SpecInit == InitInit /\ [][InitNext]_vars

\* =========================================================================
\* validateAttributes (SpecAttr)
\* =========================================================================
MaxAttrs == 2

\* The attributes of DeclAttributes that validateAttributes looks at.
\* "weak" and "unowned" are the two values of the ownership attribute.
AttrNames ==
  {"objc", "weak", "unowned", "iboutlet", "ibaction", "infix", "postfix",
   "prefix", "assignment", "conversion", "force_inline", "byref",
   "auto_closure", "objc_block", "class_protocol", "cc", "thin", "noreturn"}
Ownerships == {"weak", "unowned"}

\* The types of a value declaration, as far as validateAttributes asks:
\* whether the type allows ownership, whether it is an existential or an
\* archetype, whether it is the error type.
SimpleTy(k) == [kind |-> k, ownership |-> "none", referent |-> "none"]
\* ReferenceStorageType::get(referent, ownership).
ReferenceStorageOf(ty, how) ==
  [kind |-> "ReferenceStorage", ownership |-> how, referent |-> ty.kind]
allowsOwnership(ty) == ty.kind \in {"Class", "ClassArchetype"}
isOpaqueType(ty) == ty.kind \in {"Protocol", "Archetype", "ClassArchetype"}

\* A value declaration: its kind, its context, and what the checks read of
\* it.  numArguments is the number of lexical arguments (-1 when the input
\* is no tuple); the fields from firstParamLValue on describe the function
\* type and body of a FuncDecl.
Shape(k, ctx, t) ==
  [kind |-> k, context |-> ctx, ty |-> SimpleTy(t),
   isOperator |-> FALSE, arity |-> "none", isAddressOf |-> FALSE,
   isStatic |-> FALSE, isGetterOrSetter |-> FALSE,
   requiresClass |-> FALSE, numArguments |-> IF k = "Func" THEN 0 ELSE -1,
   firstParamLValue |-> FALSE, resultIsEmptyTuple |-> TRUE,
   allDefaulted |-> k = "Func", curried |-> FALSE, generic |-> FALSE]

Operator(ctx, n, ar, lv) ==
  [Shape("Func", ctx, "Function") EXCEPT
     !.isOperator = TRUE, !.arity = ar, !.numArguments = n,
     !.firstParamLValue = lv, !.allDefaulted = FALSE]

DeclShapes ==
  { Shape("Var", "Module", "Class"), Shape("Var", "Module", "Struct"),
    Shape("Var", "Module", "Protocol"), Shape("Var", "Class", "Class"),
    Shape("Var", "Class", "Struct"), Shape("Var", "Struct", "Archetype"),
    Shape("Var", "ClassExtension", "ClassArchetype"),
    [Shape("Var", "Module", "Class") EXCEPT !.isOperator = TRUE],
    Shape("Func", "Module", "Function"), Shape("Func", "Class", "Function"),
    Shape("Func", "Struct", "Function"), Shape("Func", "Struct", "Error"),
    Shape("Func", "ClassExtension", "Function"),
    [Shape("Func", "Class", "Function") EXCEPT !.isStatic = TRUE],
    [Shape("Func", "Class", "Function") EXCEPT !.isGetterOrSetter = TRUE],
    [Shape("Func", "Class", "Function") EXCEPT !.resultIsEmptyTuple = FALSE],
    [Shape("Func", "Struct", "Function") EXCEPT
       !.numArguments = 1, !.allDefaulted = FALSE],
    [Shape("Func", "Module", "Function") EXCEPT !.curried = TRUE],
    [Shape("Func", "Module", "Function") EXCEPT !.generic = TRUE],
    Operator("Module", 1, "unary", FALSE),
    [Operator("Module", 1, "unary", FALSE) EXCEPT !.isAddressOf = TRUE],
    Operator("Module", 2, "binary", FALSE),
    Operator("Module", 2, "binary", TRUE),
    Operator("Class", 2, "binary", TRUE),
    Operator("Module", 0, "none", FALSE),
    Shape("Class", "Module", "MetaType"), Shape("Struct", "Module", "MetaType"),
    Shape("Union", "Module", "MetaType"), Shape("Protocol", "Module", "MetaType"),
    [Shape("Protocol", "Module", "MetaType") EXCEPT !.requiresClass = TRUE],
    Shape("Constructor", "Struct", "Function"),
    Shape("Destructor", "Class", "Function") }

\* The attribute sets a declaration is written with: at most MaxAttrs
\* attributes, and at most one ownership.
AttrSets ==
  {as \in SUBSET AttrNames :
     Cardinality(as) <= MaxAttrs /\ Cardinality(as \cap Ownerships) <= 1}

\* The lambda isInClassContext: the declared type of the context is a class.
isInClassContext(d) == d.context \in {"Class", "ClassExtension"}
\* isa<ClassDecl>(VD->getDeclContext()).
isClassDeclContext(d) == d.context = "Class"
\* ValueDecl::isInstanceMember.
isInstanceMember(d) == d.context # "Module" /\ ~d.isStatic
isUnaryOperator(d) == d.arity = "unary"
isBinaryOperator(d) == d.arity = "binary"

\* ProtocolDecl::requiresClass: the protocol is a class protocol.
requiresClass(d, v) == d.requiresClass \/ "class_protocol" \in v.attrs

\* ------------------------------------------------------ validateAttributes
\* The state of a call: the attributes and the type of the declaration, the
\* diagnostics emitted, each with the attribute it is about, and whether
\* the function has returned.
Enter(attrs, ty) ==
  [attrs |-> attrs, ty |-> ty, diags |-> <<>>, returned |-> FALSE]
Report(v, diag, attr) == [v EXCEPT !.diags = Append(@, <<diag, attr>>)]
Clear(v, as) == [v EXCEPT !.attrs = @ \ as]
Return(v) == [v EXCEPT !.returned = TRUE]
\* Diagnose, clear the attribute, and go on with the next attribute.
Reject(v, diag, attr) == Clear(Report(v, diag, attr), {attr})

\* Operators must be functions; unary prefix '&' is reserved.
CheckOperator(d, v) ==
  IF ~d.isOperator THEN v
  ELSE IF d.kind # "Func"
  THEN Return(Report(v, "operator_not_func", "operator"))
  ELSE IF isUnaryOperator(d) /\ d.isAddressOf /\ "postfix" \notin v.attrs
  THEN Return(Report(v, "custom_operator_addressof", "operator"))
  ELSE v

ObjCError(d, v) ==
  IF d.kind = "Class" THEN "none"
  ELSE IF d.kind = "Func" /\ isInClassContext(d)
  THEN (IF d.isOperator THEN "invalid_objc_decl" ELSE "none")
  ELSE IF d.kind = "Var" /\ isInClassContext(d) THEN "none"
  ELSE IF d.kind = "Protocol"
  THEN (IF ~requiresClass(d, v) THEN "objc_protocol_not_class_protocol"
        ELSE "none")
  ELSE "invalid_objc_decl"

CheckObjC(d, v) ==
  IF v.returned \/ "objc" \notin v.attrs \/ ObjCError(d, v) = "none" THEN v
  ELSE Return(Clear(Report(v, ObjCError(d, v), "objc"), {"objc"}))

CheckOwnership(d, v) ==
  IF v.returned \/ v.attrs \cap Ownerships = {} THEN v
  ELSE LET how == CHOOSE o \in Ownerships : o \in v.attrs
       IN IF d.kind # "Var"
          THEN Return(Clear(Report(v, "invalid_ownership_decl", how),
                            Ownerships))
          ELSE IF ~allowsOwnership(v.ty)
          THEN Return(Clear(Report(v, IF isOpaqueType(v.ty)
                                      THEN "invalid_ownership_opaque_type"
                                      ELSE "invalid_ownership_type", how),
                            Ownerships))
          ELSE [v EXCEPT !.ty = ReferenceStorageOf(v.ty, how)]

CheckIBOutlet(d, v) ==
  IF v.returned \/ "iboutlet" \notin v.attrs THEN v
  ELSE IF ~(d.kind = "Var" /\ isInClassContext(d))
  THEN Return(Reject(v, "invalid_iboutlet", "iboutlet"))
  ELSE v

CheckIBAction(d, v) ==
  IF v.returned \/ "ibaction" \notin v.attrs THEN v
  ELSE IF d.kind # "Func" \/ ~isClassDeclContext(d) \/ d.isStatic
          \/ d.isGetterOrSetter
  THEN Return(Reject(v, "invalid_ibaction_decl", "ibaction"))
  ELSE IF ~d.resultIsEmptyTuple
  THEN Return(Reject(v, "invalid_ibaction_result", "ibaction"))
  ELSE v

\* The infix attribute is diagnosed and left set.
CheckInfix(d, v) ==
  IF v.returned \/ "infix" \notin v.attrs THEN v
  ELSE IF ~d.isOperator
  THEN Return(Report(v, "infix_not_an_operator", "infix"))
  ELSE IF d.kind # "Func" \/ ~isBinaryOperator(d)
  THEN Return(Report(v, "invalid_infix_input", "infix"))
  ELSE v

CheckPostfix(d, v) ==
  IF v.returned \/ "postfix" \notin v.attrs THEN v
  ELSE IF ~d.isOperator
  THEN Return(Reject(v, "postfix_not_an_operator", "postfix"))
  ELSE IF d.kind # "Func" \/ ~isUnaryOperator(d)
  THEN Return(Reject(v, "invalid_postfix_input", "postfix"))
  ELSE v

\* A rejected prefix attribute has ExplicitPostfix cleared.
CheckPrefix(d, v) ==
  IF v.returned \/ "prefix" \notin v.attrs THEN v
  ELSE IF ~d.isOperator
  THEN Return(Clear(Report(v, "prefix_not_an_operator", "prefix"),
                    {"postfix"}))
  ELSE IF d.kind # "Func" \/ ~isUnaryOperator(d)
  THEN Return(Clear(Report(v, "invalid_prefix_input", "prefix"),
                    {"postfix"}))
  ELSE v

CheckAssignment(d, v) ==
  IF v.returned \/ "assignment" \notin v.attrs THEN v
  ELSE IF d.kind # "Func" \/ ~d.isOperator
  THEN Reject(v, "invalid_decl_attribute", "assignment")
  ELSE IF d.numArguments < 1 \/ ~d.firstParamLValue
  THEN Reject(v, "assignment_without_byref", "assignment")
  ELSE v

CheckConversion(d, v) ==
  IF v.returned \/ "conversion" \notin v.attrs THEN v
  ELSE IF d.kind # "Func" \/ ~isInstanceMember(d)
  THEN Reject(v, "conversion_not_instance_method", "conversion")
  ELSE IF v.ty.kind # "Error" /\ ~d.allDefaulted
  THEN Reject(v, "conversion_params", "conversion")
  ELSE v

CheckForceInline(d, v) ==
  IF v.returned \/ "force_inline" \notin v.attrs THEN v
  ELSE IF d.kind # "Func"
  THEN Reject(v, "force_inline_not_function", "force_inline")
  ELSE IF d.curried
  THEN Reject(v, "force_inline_curry_not_supported", "force_inline")
  ELSE IF d.generic
  THEN Reject(v, "force_inline_generic_not_supported", "force_inline")
  ELSE v

\* An attribute no declaration may carry.
CheckNotOnDecl(v, attr) ==
  IF v.returned \/ attr \notin v.attrs THEN v
  ELSE Reject(v, "invalid_decl_attribute", attr)

CheckClassProtocol(d, v) ==
  IF v.returned \/ "class_protocol" \notin v.attrs \/ d.kind = "Protocol"
  THEN v
  ELSE Reject(v, "class_protocol_not_protocol", "class_protocol")

\* The checks from the assignment attribute on: none of them returns.
CheckRest(d, v) ==
  LET v1 == CheckForceInline(d, CheckConversion(d, CheckAssignment(d, v)))
      v2 == CheckNotOnDecl(CheckNotOnDecl(CheckNotOnDecl(v1, "byref"),
                                          "auto_closure"), "objc_block")
      v3 == CheckClassProtocol(d, v2)
  IN CheckNotOnDecl(CheckNotOnDecl(CheckNotOnDecl(v3, "cc"), "thin"),
                    "noreturn")

validateAttributes(d, attrs, ty) ==
  LET v1 == CheckOwnership(d, CheckObjC(d, CheckOperator(d, Enter(attrs, ty))))
      v2 == CheckInfix(d, CheckIBAction(d, CheckIBOutlet(d, v1)))
  IN CheckRest(d, CheckPrefix(d, CheckPostfix(d, v2)))

\* ----------------------------------------------------- the callers (SpecAttr)
\* One call of validateAttributes on VD, from the visit of its kind.
Validate(kinds) ==
  /\ attrLog.calls = 0
  /\ VD.shape.kind \in kinds
  /\ LET v == validateAttributes(VD.shape, VD.attrs, VD.ty)
     IN /\ VD' = [VD EXCEPT !.attrs = v.attrs, !.ty = v.ty]
        /\ attrLog' = [attrLog EXCEPT !.calls = @ + 1, !.diags = v.diags]
  /\ UNCHANGED <<inhVars, ctorVars, initVars, walk, passVars,
                 bindVars, protoVars, memberVars>>

\* visitBoundVars.
ValidateVar == Validate({"Var"})
\* visitUnionDecl, visitStructDecl, visitClassDecl, visitProtocolDecl.
ValidateTypeDecl == Validate({"Union", "Struct", "Class", "Protocol"})
\* visitFuncDecl.
ValidateFunc == Validate({"Func"})
\* visitConstructorDecl, visitDestructorDecl.
ValidateConstructorOrDestructor == Validate({"Constructor", "Destructor"})

AttrInit ==
  /\ \E sh \in DeclShapes, as \in AttrSets :
        /\ VD = [shape |-> sh, attrs |-> as, ty |-> sh.ty]
        /\ attrLog = [calls |-> 0, diags |-> <<>>, parsed |-> as]
  /\ InhIdle
  /\ CtorIdle
  /\ InitIdle
  /\ WalkIdle
  /\ PassIdle
  /\ BindIdle
  /\ NewerIdle

AttrNext ==
  \/ ValidateVar
  \/ ValidateTypeDecl
  \/ ValidateFunc
  \/ ValidateConstructorOrDestructor

SpecAttr == AttrInit /\ [][AttrNext]_vars

\* =========================================================================
\* checkObjCConformances (SpecWalk)
\* =========================================================================
MaxRoots == 2

\* The protocols of the walk.  P may inherit Q and R, and Q may inherit R,
\* so the conformance to R can be nested in both others.
WalkProtocols == {"P", "Q", "R"}
InheritedCandidates(p) ==
  CASE p = "P" -> <<"Q", "R">> [] p = "Q" -> <<"R">> [] OTHER -> <<>>

\* ProtocolConformance::getWitnesses of the conformance to p: the
\* declarations witnessing its requirements.  g witnesses a requirement of
\* P and one of Q.
WitnessesOf(p) ==
  CASE p = "P" -> {"f", "g"} [] p = "Q" -> {"g", "h"} [] OTHER -> {"k"}

\* A pair (protocol, conformance) as the walk is handed it: the conformance
\* to the protocol, or a null pointer.
ConformanceEntry(p, how) == [proto |-> p, how |-> how]

\* getInheritedConformances of the conformance to p, given for every
\* candidate whether it is absent, a conformance or null.
InheritedConformances(p, choice) ==
  SelectSeq([i \in 1..Len(InheritedCandidates(p)) |->
               ConformanceEntry(InheritedCandidates(p)[i], choice[i])],
            LAMBDA e : e.how # "absent")

\* The protocol and conformance lists of a class: up to MaxRoots protocols,
\* no protocol twice.
RootLists ==
  {rs \in SeqsUpTo({ConformanceEntry(p, how) :
                      p \in WalkProtocols, how \in {"conformance", "null"}},
                   MaxRoots) :
     \A i, j \in 1..Len(rs) : i # j => rs[i].proto # rs[j].proto}

\* Mutant of NestedCalls: the inherited conformances are walked only under
\* a protocol that is ObjC.
NestedCallsUnderObjC(w, e) ==
  IF e.proto \in w.objc THEN w.inherited[e.proto] ELSE <<>>

\* The calls checkObjCConformance makes for the inherited conformances.
NestedCalls(w, e) == w.inherited[e.proto]

\* Mutant of MarkWitnesses: a declaration already marked ends the marking
\* of the conformance's witnesses.
MarkWitnessesUntilMarked(w, e) ==
  IF e.proto \in w.objc /\ WitnessesOf(e.proto) \cap w.isObjC = {}
  THEN [w EXCEPT !.isObjC = @ \cup WitnessesOf(e.proto),
                 !.markedFor = @ \cup {e.proto}]
  ELSE w

\* protocol->isObjC(): setIsObjC(true) on every witness.
MarkWitnesses(w, e) ==
  IF e.proto \in w.objc
  THEN [w EXCEPT !.isObjC = @ \cup WitnessesOf(e.proto),
                 !.markedFor = @ \cup {e.proto}]
  ELSE w

\* The walk before checkObjCConformances is called on the lists roots.
NewWalk(objc, inherited, roots) ==
  [objc |-> objc, inherited |-> inherited, roots |-> roots,
   pending |-> <<>>, pc |-> "start", isObjC |-> {}, markedFor |-> {},
   calls |-> 0, visits |-> [p \in WalkProtocols |-> 0]]

\* checkObjCConformances, called by visitClassDecl: the loop over the two
\* lists starts; the calls it makes are pending in list order.
CheckObjCConformances ==
  /\ walk.pc = "start"
  /\ walk' = [walk EXCEPT !.pc = "walking", !.pending = walk.roots]
  /\ UNCHANGED <<inhVars, ctorVars, initVars, attrVars, passVars,
                 bindVars, protoVars, memberVars>>

\* One call of checkObjCConformance(protocol, conformance): the first
\* pending call runs, and the calls for its inherited conformances are
\* pending before the remaining ones.
checkObjCConformance(w0) ==
  LET e == Head(w0.pending)
      w == [w0 EXCEPT !.calls = @ + 1]
  IN IF e.how = "null"
     THEN [w EXCEPT !.pending = Tail(@)]
     ELSE [MarkWitnesses(w, e) EXCEPT
             !.pending = NestedCalls(w, e) \o Tail(@),
             !.visits[e.proto] = @ + 1]

CheckObjCConformance ==
  /\ walk.pc = "walking"
  /\ walk.pending # <<>>
  /\ walk' = checkObjCConformance(walk)
  /\ UNCHANGED <<inhVars, ctorVars, initVars, attrVars, passVars,
                 bindVars, protoVars, memberVars>>

\* checkObjCConformances returns.
WalkReturns ==
  /\ walk.pc = "walking"
  /\ walk.pending = <<>>
  /\ walk' = [walk EXCEPT !.pc = "done"]
  /\ UNCHANGED <<inhVars, ctorVars, initVars, attrVars, passVars,
                 bindVars, protoVars, memberVars>>

WalkInit ==
  /\ \E objc \in SUBSET WalkProtocols, roots \in RootLists,
        cP \in [1..2 -> {"absent", "conformance", "null"}],
        cQ \in [1..1 -> {"absent", "conformance", "null"}] :
        walk = NewWalk(objc,
                       [p \in WalkProtocols |->
                          CASE p = "P" -> InheritedConformances(p, cP)
                            [] p = "Q" -> InheritedConformances(p, cQ)
                            [] OTHER -> <<>>],
                       roots)
  /\ InhIdle
  /\ CtorIdle
  /\ InitIdle
  /\ AttrIdle
  /\ PassIdle
  /\ BindIdle
  /\ NewerIdle

WalkNext ==
  \/ CheckObjCConformances
  \/ CheckObjCConformance
  \/ WalkReturns

SpecWalk == WalkInit /\ [][WalkNext]_vars
\* The checker runs the walk to its end: no step of it waits for anything.
SpecWalkFair == SpecWalk /\ WF_vars(WalkNext)

\* =========================================================================
\* The passes over a translation unit (SpecPass)
\* =========================================================================
MaxPassClauseLen == 2

\* checkObjCConformances run to its end.
RECURSIVE RunWalk(_)
RunWalk(w) == IF w.pending = <<>> THEN w ELSE RunWalk(checkObjCConformance(w))

\* The type of entry i of the clause as the conformance pass reads it: an
\* entry that failed validation has the error type.
InheritedType(d, i) == IF d.invalid[i] THEN "Err" ELSE d.inherited[i]

\* Mutant of GatherProtocols: a protocol is gathered each time it is named.
RECURSIVE GatherProtocolsRepeating(_, _, _)
GatherProtocolsRepeating(d, i, allProtocols) ==
  IF i > Len(d.inherited) THEN allProtocols
  ELSE GatherProtocolsRepeating(d, i + 1,
         allProtocols \o ExistentialProtocols(InheritedType(d, i)))

\* The loop of gatherExplicitConformances: the protocols of the existential
\* entries, each once (knownProtocols), in clause order.
RECURSIVE GatherProtocols(_, _, _)
GatherProtocols(d, i, allProtocols) ==
  IF i > Len(d.inherited) THEN allProtocols
  ELSE GatherProtocols(d, i + 1,
         SetVectorInsert(allProtocols,
                         ExistentialProtocols(InheritedType(d, i))))

\* Mutant of RecordedConformances: only the conformances found are kept.
RecordedConformancesFound(allProtocols, conforms) ==
  SelectSeq(allProtocols, LAMBDA p : p \in conforms)

\* allConformances: for each protocol the conformance the checker built
\* (named by its protocol), or null.
RecordedConformances(allProtocols, conforms) ==
  [i \in 1..Len(allProtocols) |->
     IF allProtocols[i] \in conforms THEN allProtocols[i] ELSE "null"]

\* gatherExplicitConformances(D, T), the conformance checker finding the
\* type to conform to the protocols in conforms.
gatherExplicitConformances(d, conforms) ==
  LET allProtocols == GatherProtocols(d, 1, <<>>)
  IN [d |-> [d EXCEPT
               !.protocols = IF Len(@) = Len(allProtocols) THEN @
                             ELSE allProtocols,
               !.conformances = RecordedConformances(allProtocols, conforms)],
      asked |-> SeqToSet(allProtocols),
      trap |-> Len(d.protocols) = Len(allProtocols)
                 /\ d.protocols # allProtocols,
      replaced |-> d.protocols # <<>>
                     /\ Len(d.protocols) # Len(allProtocols)]

\* Mutant of RunsConformancePass: the conformances are checked in every
\* pass.
RunsConformancePassAlways(mode) == TRUE

\* Whether a visit in this mode checks the explicit conformances.
RunsConformancePass(mode) == ~IsFirstPass(mode)

\* The conformance graph of the unit: the conformance to P nests the one to
\* Q, and Q is an ObjC protocol.
UnitInherited ==
  [p \in WalkProtocols |->
     IF p = "P" THEN <<ConformanceEntry("Q", "conformance")>> ELSE <<>>]
UnitObjC == {"Q"}

\* The lists handed to checkObjCConformances by a class or an extension.
ConformanceLists(d) ==
  [i \in 1..Len(d.protocols) |->
     ConformanceEntry(d.protocols[i],
                      IF i <= Len(d.conformances) /\ d.conformances[i] # "null"
                      THEN "conformance" ELSE "null")]

\* The walk of checkObjCConformances over these lists, about to start.
StartedWalk(roots) ==
  [NewWalk(UnitObjC, UnitInherited, roots) EXCEPT !.pending = roots]

NothingVisited(d) ==
  [d |-> d, asked |-> {}, wrote |-> FALSE, trap |-> FALSE, replaced |-> FALSE,
   isObjC |-> {}]

\* visitTypeAliasDecl, visitUnionDecl, visitStructDecl, visitClassDecl,
\* visitExtensionDecl and visitProtocolDecl, as far as the inheritance
\* clause and the conformances go.
visitDecl(d, mode, conforms) ==
  IF d.kind = "Protocol" THEN NothingVisited(d)
  ELSE LET d1 == IF ~IsSecondPass(mode) THEN checkInheritanceClause(d).d
                 ELSE d
       IN IF ~RunsConformancePass(mode) THEN NothingVisited(d1)
          ELSE LET g == gatherExplicitConformances(d1, conforms)
                   walks == d.kind \in {"Class", "Extension"}
               IN [d |-> g.d, asked |-> g.asked, wrote |-> TRUE,
                   trap |-> g.trap \/ (walks /\ Len(g.d.protocols)
                                                  # Len(g.d.conformances)),
                   replaced |-> g.replaced,
                   isObjC |-> IF walks
                              THEN RunWalk(StartedWalk(ConformanceLists(g.d)))
                                     .isObjC
                              ELSE {}]

\* The declarations of the unit.  D1 is at module scope; D2 is a class at
\* module scope or local to a function body.
UnitNames == {"D1", "D2"}
PassKinds == {"TypeAlias", "Union", "Struct", "Class", "Extension", "Protocol"}
PassTypes == {"P", "PQ", "A", "Bad"}
hasMembers(d) == d.kind \in {"Union", "Struct", "Class", "Extension"}
MemberLists == {<<>>, <<NewDecl("Struct", <<"P">>)>>}
Contexts == {"Module", "Local"}

UnitDecl(d, members, context) ==
  [decl |-> d, members |-> members, context |-> context]

NoVisits ==
  [first |-> {}, later |-> {}, pre |-> {}, direct |-> {},
   asked |-> {}, wrote |-> {}, early |-> FALSE, trap |-> FALSE,
   replaced |-> FALSE, isObjC |-> {}]

\* TypeChecker::typeCheckDecl: the mode of the DeclChecker it builds.
PassMode(isFirstPass, context) ==
  IF isFirstPass THEN "FirstPass"
  ELSE IF context = "Module" THEN "SecondPass"
  ELSE "Single"

ModuleLevel == {n \in UnitNames : unit[n].context = "Module"}

\* The order in which the unit's driver calls typeCheckDecl: the first pass
\* is for module-scope declarations only, and nothing is checked without
\* the first pass before every module-scope declaration has had its own.
DriverOrder(n, isFirstPass) ==
  IF isFirstPass
  THEN unit[n].context = "Module" /\ n \notin passLog.first
  ELSE ModuleLevel \subseteq passLog.first /\ n \notin passLog.later

\* The visit of a declaration and, in the same mode, of its members.
VisitAll(u, mode, conforms, mconforms) ==
  [top |-> visitDecl(u.decl, mode, conforms),
   members |-> [i \in 1..Len(u.members) |->
                  visitDecl(u.members[i], mode, mconforms)]]

Queries(n, mode, r) ==
  {[name |-> n, member |-> 0, proto |-> p, mode |-> mode] : p \in r.top.asked}
  \cup UNION {{[name |-> n, member |-> i, proto |-> p, mode |-> mode] :
                 p \in r.members[i].asked} : i \in DOMAIN r.members}

Writes(n, mode, r) ==
  {[name |-> n, member |-> i, mode |-> mode] :
     i \in {j \in DOMAIN r.members : r.members[j].wrote}
           \cup (IF r.top.wrote THEN {0} ELSE {})}

\* What the conformance checker can answer during a visit: the protocols
\* it finds the type to conform to, when the visit can ask it.
CheckerAnswers(n, isFirstPass, protos) ==
  IF RunsConformancePass(PassMode(isFirstPass, unit[n].context))
  THEN SUBSET protos ELSE {{}}

TypeCheckDecl(n, isFirstPass) ==
  /\ DriverOrder(n, isFirstPass)
  /\ \E conforms \in CheckerAnswers(n, isFirstPass, {"P", "Q"}),
        mconforms \in IF unit[n].members = <<>> THEN {{}}
                      ELSE CheckerAnswers(n, isFirstPass, {"P"}) :
       LET u == unit[n]
           mode == PassMode(isFirstPass, u.context)
           r == VisitAll(u, mode, conforms, mconforms)
       IN /\ unit' = [unit EXCEPT
                        ![n].decl = r.top.d,
                        ![n].members = [i \in DOMAIN r.members |->
                                          r.members[i].d]]
          /\ passLog' = [passLog EXCEPT
               !.first = IF isFirstPass THEN @ \cup {n} ELSE @,
               !.later = IF isFirstPass THEN @ ELSE @ \cup {n},
               !.asked = @ \cup Queries(n, mode, r),
               !.wrote = @ \cup Writes(n, mode, r),
               !.early = @ \/ (Writes(n, mode, r) # {}
                               /\ ~(ModuleLevel \subseteq passLog.first)),
               !.trap = @ \/ r.top.trap
                          \/ \E i \in DOMAIN r.members : r.members[i].trap,
               !.replaced = @ \/ r.top.replaced
                              \/ \E i \in DOMAIN r.members :
                                    r.members[i].replaced,
               !.isObjC = @ \cup {<<n, f>> : f \in r.top.isObjC}]
  /\ UNCHANGED <<inhVars, ctorVars, initVars, attrVars, walk,
                 bindVars, protoVars, memberVars>>

\* preCheckProtocol reaches a protocol before its visit.
PassPreCheckProtocol(n) ==
  /\ unit[n].decl.kind = "Protocol"
  /\ n \notin passLog.pre
  /\ unit' = [unit EXCEPT ![n].decl = checkInheritanceClause(@).d]
  /\ passLog' = [passLog EXCEPT !.pre = @ \cup {n}]
  /\ UNCHANGED <<inhVars, ctorVars, initVars, attrVars, walk,
                 bindVars, protoVars, memberVars>>

\* getDirectConformsTo reaches a nominal type or an extension at any time.
PassGetDirectConformsTo(n) ==
  /\ isNominalTypeDecl(unit[n].decl) \/ unit[n].decl.kind = "Extension"
  /\ n \notin passLog.direct
  /\ unit' = [unit EXCEPT ![n].decl = checkInheritanceClause(@).d]
  /\ passLog' = [passLog EXCEPT !.direct = @ \cup {n}]
  /\ UNCHANGED <<inhVars, ctorVars, initVars, attrVars, walk,
                 bindVars, protoVars, memberVars>>

PassInit ==
  /\ \E k \in PassKinds, clause \in SeqsUpTo(PassTypes, MaxPassClauseLen),
        members \in MemberLists, context \in Contexts :
        /\ members # <<>> => hasMembers(NewDecl(k, clause))
        /\ unit = [n \in UnitNames |->
                     IF n = "D1"
                     THEN UnitDecl(NewDecl(k, clause), members, "Module")
                     ELSE UnitDecl(NewDecl("Class", <<"PQ">>), <<>>, context)]
  /\ passLog = NoVisits
  /\ InhIdle
  /\ CtorIdle
  /\ InitIdle
  /\ AttrIdle
  /\ WalkIdle
  /\ BindIdle
  /\ NewerIdle

PassNext ==
  \/ \E n \in UnitNames : TypeCheckDecl(n, TRUE)
  \/ \E n \in UnitNames : TypeCheckDecl(n, FALSE)
  \/ \E n \in UnitNames : PassPreCheckProtocol(n)
  \/ \E n \in UnitNames : PassGetDirectConformsTo(n)

SpecPass == PassInit /\ [][PassNext]_vars

\* =========================================================================
\* The passes over a pattern binding (SpecBind)
\* =========================================================================
\* The binding: whether an initializer is written, the initializer it holds
\* ("none", "written", or "synthesized" once a default initializer is set),
\* whether its pattern is a TypedPattern, whether the pattern has a type,
\* its context, the kind of its translation unit, and whether the pattern
\* binds a property.
BindContexts == {"Module", "Type", "Local"}
TUKinds == {"Main", "Library", "SIL"}

NewBinding(written, typed, context, kind, property) ==
  [written |-> written,
   init |-> IF written THEN "written" ELSE "none",
   typed |-> typed,
   hasType |-> FALSE,
   context |-> context,
   kind |-> kind,
   property |-> property,
   invalid |-> FALSE]

\* What the external checkers answer during one visit.
BindOutcomes ==
  [patternFails : BOOLEAN, patternTyped : BOOLEAN, exprFails : BOOLEAN,
   defaultInitializable : BOOLEAN]

DelayCheckingPattern(b) ==
  b.kind # "Library" /\ b.kind # "SIL" /\ b.context = "Module"

\* One call of typeCheckExpression.
TypeCheckExpression(expr, mode) == [expr |-> expr, mode |-> mode]

\* The outcome of a visit: the binding, the expressions type-checked,
\* whether visitBoundVars was reached, whether typeCheckPattern was called,
\* and whether a diagnostic was emitted for the binding.
Visited(b, checks, bound) ==
  [b |-> b, checks |-> checks, boundVars |-> bound, pattern |-> FALSE,
   diagnosed |-> FALSE]

\* The same outcome, typeCheckPattern having been called.
WithPattern(r) == [r EXCEPT !.pattern = TRUE]

\* The same outcome, a diagnostic having been emitted by the visit or by the
\* checker that failed.
Diagnosed(r) == [r EXCEPT !.diagnosed = TRUE]

\* The pattern after a successful typeCheckPattern or coerceToType.
PatternChecked(b, o) == [b EXCEPT !.hasType = @ \/ o.patternTyped]

\* Mutant of ChecksWrittenInit: the initializer is checked in every pass.
ChecksWrittenInitInEveryPass(b, mode) == b.init # "none"

\* The guard of the branch that type-checks the binding's initializer.
ChecksWrittenInit(b, mode) == b.init # "none" /\ ~IsFirstPass(mode)

\* The second pass over a binding whose pattern was not delayed.
SecondPassOfCheckedPattern(b, mode, o) ==
  IF b.init # "none" /\ b.hasType
  THEN LET r == Visited(b, <<TypeCheckExpression(b.init, mode)>>, FALSE)
       IN IF o.exprFails THEN Diagnosed(r) ELSE r
  ELSE Visited(b, <<>>, FALSE)

\* The branch that creates a default initializer.
CreateDefaultInitializer(b, mode, o) ==
  WithPattern(
    IF o.patternFails THEN Diagnosed(Visited(b, <<>>, FALSE))
    ELSE LET b1 == PatternChecked(b, o)
         IN IF b.property THEN Visited(b1, <<>>, TRUE)
            ELSE IF ~o.defaultInitializable
            THEN Diagnosed(Visited([b1 EXCEPT !.invalid = TRUE], <<>>, TRUE))
            ELSE IF o.exprFails
            THEN Diagnosed(Visited(b1, <<TypeCheckExpression("synthesized",
                                                             mode)>>, FALSE))
            ELSE Visited([b1 EXCEPT !.init = "synthesized"],
                         <<TypeCheckExpression("synthesized", mode)>>, TRUE))

\* The branch that type-checks the initializer the binding holds.
CheckInit(b, mode, o) ==
  LET r ==
    IF b.typed /\ o.patternFails THEN Diagnosed(Visited(b, <<>>, FALSE))
    ELSE LET b1 == IF b.typed THEN PatternChecked(b, o) ELSE b
             checks == <<TypeCheckExpression(b.init, mode)>>
         IN IF o.exprFails THEN Diagnosed(Visited(b1, checks, FALSE))
            ELSE IF ~b.typed /\ o.patternFails
            THEN Diagnosed(Visited(b1, checks, FALSE))
            ELSE Visited(IF b.typed THEN b1 ELSE PatternChecked(b1, o),
                         checks, TRUE)
  IN IF b.typed THEN WithPattern(r) ELSE r

\* DeclChecker::visitPatternBindingDecl.
visitPatternBindingDecl(b, mode, o) ==
  IF IsSecondPass(mode) /\ ~DelayCheckingPattern(b)
  THEN SecondPassOfCheckedPattern(b, mode, o)
  ELSE IF b.init = "none" /\ ~IsFirstPass(mode) /\ b.typed
          /\ b.context # "Type"
  THEN CreateDefaultInitializer(b, mode, o)
  ELSE IF ChecksWrittenInit(b, mode)
  THEN CheckInit(b, mode, o)
  ELSE IF ~IsFirstPass(mode) \/ ~DelayCheckingPattern(b)
  THEN WithPattern(IF o.patternFails
                   THEN Diagnosed(Visited(b, <<>>, FALSE))
                   ELSE Visited(PatternChecked(b, o), <<>>, TRUE))
  ELSE Visited(b, <<>>, TRUE)

\* The modes in which a binding is visited: a module-scope binding is
\* checked by typeCheckDecl in FirstPass and then in SecondPass, a local one
\* in Single, and a member in the modes of the type that holds it.
VisitOrder(mode) ==
  CASE mode = "FirstPass" -> PBD.context # "Local" /\ bindLog.passes = <<>>
    [] mode = "SecondPass" -> bindLog.passes = <<"FirstPass">>
    [] mode = "Single" -> PBD.context # "Module" /\ bindLog.passes = <<>>

VisitPatternBindingDecl(mode) ==
  /\ VisitOrder(mode)
  /\ \E o \in BindOutcomes :
       LET r == visitPatternBindingDecl(PBD, mode, o)
       IN /\ PBD' = r.b
          /\ bindLog' = [passes |-> Append(bindLog.passes, mode),
                         checks |-> bindLog.checks \o r.checks,
                         patterns |-> bindLog.patterns
                           \o (IF r.pattern THEN <<mode>> ELSE <<>>),
                         boundVars |-> bindLog.boundVars
                           \o (IF r.boundVars THEN <<mode>> ELSE <<>>),
                         diagnosed |-> bindLog.diagnosed
                           \o (IF r.diagnosed THEN <<mode>> ELSE <<>>)]
  /\ UNCHANGED <<inhVars, ctorVars, initVars, attrVars, walk,
                 passVars, protoVars, memberVars>>

BindInit ==
  /\ \E written \in BOOLEAN, typed \in BOOLEAN, context \in BindContexts,
        kind \in TUKinds, property \in BOOLEAN :
        PBD = NewBinding(written, typed, context, kind, property)
  /\ bindLog = [passes |-> <<>>, checks |-> <<>>, patterns |-> <<>>,
                boundVars |-> <<>>, diagnosed |-> <<>>]
  /\ InhIdle
  /\ CtorIdle
  /\ InitIdle
  /\ AttrIdle
  /\ WalkIdle
  /\ PassIdle
  /\ NewerIdle

BindNext ==
  \/ VisitPatternBindingDecl("FirstPass")
  \/ VisitPatternBindingDecl("SecondPass")
  \/ VisitPatternBindingDecl("Single")

SpecBind == BindInit /\ [][BindNext]_vars

\* =========================================================================
\* The visits of the protocols (SpecProto)
\* =========================================================================
\* The protocols of the unit and what their inheritance clauses can hold: R
\* may inherit from P and Q, Q from P.  "PQ" is protocol<P, Q> and "Int" is
\* no protocol.
ProtocolNames == {"P", "Q", "R"}
ProtocolAttrs == {"objc", "class_protocol"}
ProtocolClauses(p) ==
  CASE p = "R" -> {<<>>, <<"P">>, <<"Q">>, <<"PQ">>, <<"Int", "Q">>}
    [] p = "Q" -> {<<>>, <<"P">>}
    [] OTHER -> {<<>>}

\* A protocol as parsed: its attributes, its clause, and its isObjC mark.
NewProtocol(attrs, clause) ==
  [attrs |-> attrs, parsed |-> attrs, inherited |-> clause, isObjC |-> FALSE]

\* The declaration validateAttributes sees for a protocol.
ProtocolShape == Shape("Protocol", "Module", "MetaType")

\* The protocols named by the existential entries of the clause, entry by
\* entry.
RECURSIVE InheritedProtocols(_)
InheritedProtocols(clause) ==
  IF clause = <<>> THEN <<>>
  ELSE ExistentialProtocols(Head(clause)) \o InheritedProtocols(Tail(clause))

\* The inherited protocols that do not carry the objc attribute.
RefinesNonObjC(ps, pd) ==
  SelectSeq(InheritedProtocols(pd.inherited),
            LAMBDA q : "objc" \notin ps[q].attrs)

\* DeclChecker::visitProtocolDecl: the protocols after the visit of p, and
\* the diagnostics emitted, each <<diagnostic, protocol, what it is about>>.
visitProtocolDecl(ps, p, mode) ==
  IF IsSecondPass(mode) THEN [ps |-> ps, diags |-> <<>>]
  ELSE LET pd == ps[p]
           offenders == IF "objc" \in pd.attrs THEN RefinesNonObjC(ps, pd)
                        ELSE <<>>
           pd1 == IF "objc" \in pd.attrs
                  THEN [pd EXCEPT !.isObjC = (offenders = <<>>)]
                  ELSE pd
           v == validateAttributes(ProtocolShape, pd1.attrs, ProtocolShape.ty)
       IN [ps |-> [ps EXCEPT ![p] = [pd1 EXCEPT !.attrs = v.attrs]],
           diags |->
             [i \in 1..Len(offenders) |->
                <<"objc_protocol_inherits_non_objc_protocol", p, offenders[i]>>]
             \o [i \in 1..Len(v.diags) |-> <<v.diags[i][1], p, v.diags[i][2]>>]]

\* A protocol is visited once in FirstPass or Single, and then possibly in
\* SecondPass.
VisitProtocolDecl(p, mode) ==
  /\ IF IsSecondPass(mode)
     THEN p \in protoLog.visited /\ p \notin protoLog.second
     ELSE p \notin protoLog.visited
  /\ LET r == visitProtocolDecl(protocolDecls, p, mode)
     IN /\ protocolDecls' = r.ps
        /\ protoLog' =
             [visited |-> IF IsSecondPass(mode) THEN protoLog.visited
                          ELSE protoLog.visited \cup {p},
              second |-> IF IsSecondPass(mode) THEN protoLog.second \cup {p}
                         ELSE protoLog.second,
              diags |-> protoLog.diags \o r.diags]
  /\ UNCHANGED <<inhVars, ctorVars, initVars, attrVars, walk,
                 passVars, bindVars, memberVars>>

ProtoInit ==
  /\ \E attrs \in [ProtocolNames -> SUBSET ProtocolAttrs],
        cQ \in ProtocolClauses("Q"), cR \in ProtocolClauses("R") :
        protocolDecls =
          [p \in ProtocolNames |->
             NewProtocol(attrs[p], CASE p = "Q" -> cQ [] p = "R" -> cR
                                     [] OTHER -> <<>>)]
  /\ protoLog = [visited |-> {}, second |-> {}, diags |-> <<>>]
  /\ InhIdle
  /\ CtorIdle
  /\ InitIdle
  /\ AttrIdle
  /\ WalkIdle
  /\ PassIdle
  /\ BindIdle
  /\ MemberIdle

ProtoNext ==
  \E p \in ProtocolNames, mode \in Modes : VisitProtocolDecl(p, mode)

SpecProto == ProtoInit /\ [][ProtoNext]_vars

\* =========================================================================
\* The visits of the members of a union (SpecMember)
\* =========================================================================
MaxMembers == 2

\* A member as parsed.  What the external checkers will answer is part of
\* the member: whether validateType fails on the element type of a subscript,
\* whether typeCheckPattern fails on its indices or on the arguments of a
\* constructor, and for a union element whether it has an argument type and
\* a result type and what validateType makes of each.  No type is set yet.
Member(kind, elementFails, patternFails, arg, result) ==
  [kind |-> kind, elementFails |-> elementFails, patternFails |-> patternFails,
   arg |-> arg, result |-> result, type |-> "none", invalid |-> FALSE]

MemberShapes ==
  {Member("Subscript", e, f, "none", "none") : e \in BOOLEAN, f \in BOOLEAN}
  \cup {Member("Constructor", FALSE, f, "none", "none") : f \in BOOLEAN}
  \cup {Member("UnionElement", FALSE, FALSE, a, r) :
          a \in {"none", "valid", "fails", "notMaterializable"},
          r \in {"none", "valid", "fails"}}

\* The outcome of the visit of a member: the member and the diagnostics.
MemberVisited(m, diags) == [m |-> m, diags |-> diags]

visitSubscriptDecl(m, mode) ==
  IF IsSecondPass(mode) THEN MemberVisited(m, <<>>)
  ELSE IF m.elementFails \/ m.patternFails
  THEN MemberVisited([m EXCEPT !.type = "Error"], <<>>)
  ELSE MemberVisited([m EXCEPT !.type = "Function"], <<>>)

\* The constructors here carry no attributes, so the validateAttributes call
\* that ends the visit changes nothing.
visitConstructorDecl(m, mode) ==
  IF IsSecondPass(mode) THEN MemberVisited(m, <<>>)
  ELSE IF m.patternFails
  THEN MemberVisited([m EXCEPT !.type = "Error"], <<>>)
  ELSE MemberVisited([m EXCEPT !.type = "Function"], <<>>)

visitUnionElementDecl(m, mode) ==
  IF IsSecondPass(mode) THEN MemberVisited(m, <<>>)
  ELSE IF m.arg = "fails" THEN MemberVisited(m, <<>>)
  ELSE IF m.result = "fails" THEN MemberVisited(m, <<>>)
  ELSE IF m.arg = "none"
  THEN MemberVisited([m EXCEPT !.type = "Function"], <<>>)
  ELSE MemberVisited([m EXCEPT !.type = "Function"],
                     IF m.arg = "notMaterializable"
                     THEN <<"union_element_not_materializable">> ELSE <<>>)

\* The dispatch of visit(member).
visitUnionMember(m, mode) ==
  CASE m.kind = "Subscript" -> visitSubscriptDecl(m, mode)
    [] m.kind = "Constructor" -> visitConstructorDecl(m, mode)
    [] m.kind = "UnionElement" -> visitUnionElementDecl(m, mode)

\* One turn of the loop over the members in visitUnionDecl.
VisitNextMember ==
  /\ memberLog.next \in DOMAIN container
  /\ LET i == memberLog.next
         r == visitUnionMember(container[i], memberLog.mode)
     IN /\ container' = [container EXCEPT ![i] = r.m]
        /\ memberLog' = [memberLog EXCEPT
             !.next = i + 1,
             !.visited = IF IsSecondPass(memberLog.mode) THEN @
                         ELSE @ \cup {i},
             !.diags = @ \o [k \in 1..Len(r.diags) |-> <<r.diags[k], i>>]]
  /\ UNCHANGED <<inhVars, ctorVars, initVars, attrVars, walk,
                 passVars, bindVars, protoVars>>

\* The union is visited again in SecondPass once its FirstPass visit is
\* over.
VisitAgainInSecondPass ==
  /\ memberLog.mode = "FirstPass"
  /\ memberLog.next = Len(container) + 1
  /\ memberLog' = [memberLog EXCEPT !.mode = "SecondPass", !.next = 1]
  /\ UNCHANGED <<container, inhVars, ctorVars, initVars, attrVars, walk,
                 passVars, bindVars, protoVars>>

MemberInit ==
  /\ container \in SeqsUpTo(MemberShapes, MaxMembers)
  /\ \E mode \in {"FirstPass", "Single"} :
        memberLog = [mode |-> mode, next |-> 1, visited |-> {}, diags |-> <<>>]
  /\ InhIdle
  /\ CtorIdle
  /\ InitIdle
  /\ AttrIdle
  /\ WalkIdle
  /\ PassIdle
  /\ BindIdle
  /\ ProtoIdle

MemberNext ==
  \/ VisitNextMember
  \/ VisitAgainInSecondPass

SpecMember == MemberInit /\ [][MemberNext]_vars

\* =========================================================================
\* Properties of inheritance resolution (SpecInh)
\* =========================================================================
\* The resolved state of a declaration.
Resolved(d) == <<d.protocols, d.superclass, d.conformances>>

\* Entry i (0-based) of the clause, and what the type validator makes of it.
Entry(i) == decl.inherited[i + 1]
Indices == 0..(Len(decl.inherited) - 1)
Validates(i) == ~ValidateTypeFails(Entry(i))
ClassTyped(i) == Validates(i) /\ getClassOrBoundGenericClass(Entry(i))
ClassIndices == {i \in Indices : ClassTyped(i)}

\* Entry i has the canonical type of an earlier validated entry.
RepeatsEarlier(i) ==
  /\ Validates(i)
  /\ \E j \in Indices :
        j < i /\ Validates(j) /\ CanonicalType(Entry(j)) = CanonicalType(Entry(i))

\* The diagnostics of the last call about entry i, and those of one kind.
DiagsAbout(i) ==
  {n \in 1..Len(lastRun.diags) : lastRun.diags[n][2] = i}
DiagsOfKind(kind) ==
  {n \in 1..Len(lastRun.diags) : lastRun.diags[n][1] = kind}

\* C1: a call of checkInheritanceClause that follows an earlier call on the
\* same declaration leaves the protocol set, the superclass and the
\* conformance placeholders as the earlier call left them.
C1_SecondRunSameState ==
  [][(op \in CheckOps /\ calls' = calls + 1)
       => Resolved(decl') = Resolved(decl)]_vars

C1_Witness ==
  /\ calls = 2
  /\ decl.protocols = <<"P", "Q">>
  /\ decl.superclass = "A"

\* C2: a call of checkInheritanceClause on a declaration whose clause an
\* earlier call has processed validates no entry, emits no diagnostic and
\* writes no field.
C2_SecondRunIsNoOp ==
  (calls >= 2 /\ op \in CheckOps)
    => /\ lastRun.validated = 0
       /\ lastRun.diags = <<>>
       /\ lastRun.writes = {}

\* C3: an entry whose canonical type is that of an earlier validated entry
\* gets exactly one duplicate-inheritance diagnostic and no other, no other
\* entry gets one, and nothing is recorded from it: every recorded protocol
\* and the recorded superclass come from an entry that repeats none, and no
\* protocol is recorded twice.  Entries [A, B, A] keep one A and diagnose
\* the duplicate at index 2 only.
C3_DuplicateDiagnosedOnce ==
  lastRun.looped =>
    /\ \A i \in Indices :
          IF RepeatsEarlier(i)
          THEN /\ Cardinality(DiagsAbout(i)) = 1
               /\ DiagsAbout(i) \subseteq DiagsOfKind("duplicate_inheritance")
          ELSE DiagsAbout(i) \cap DiagsOfKind("duplicate_inheritance") = {}
    /\ \A p \in SeqToSet(decl.protocols) :
          \E i \in Indices :
             /\ Validates(i) /\ ~RepeatsEarlier(i)
             /\ p \in SeqToSet(ExistentialProtocols(Entry(i)))
    /\ Cardinality(SeqToSet(decl.protocols)) = Len(decl.protocols)
    /\ decl.superclass # NoType =>
          \E i \in Indices :
             ClassTyped(i) /\ ~RepeatsEarlier(i) /\ Entry(i) = decl.superclass
    /\ decl.inherited = <<"P", "Q", "P">> =>
          /\ decl.protocols = <<"P", "Q">>
          /\ lastRun.diags = << <<"duplicate_inheritance", 2>> >>
    /\ (decl.kind = "Class" /\ decl.inherited = <<"A", "B", "A">>) =>
          /\ decl.superclass = "A"
          /\ DiagsOfKind("duplicate_inheritance") = {2}
          /\ lastRun.diags[2] = <<"duplicate_inheritance", 2>>

C3_Witness ==
  /\ lastRun.looped
  /\ decl.kind = "Class"
  /\ decl.inherited = <<"A", "P", "AliasA">>
  /\ lastRun.diags = << <<"duplicate_inheritance", 2>> >>

\* C4: when the declaration may inherit a class and its clause has exactly
\* one class-typed entry, that class is recorded as the superclass; the call
\* emits exactly one superclass-not-first diagnostic, about that entry, when
\* the entry is not the first, and none when it is.
C4_SuperclassNotFirst ==
  (lastRun.looped /\ canInheritClass(decl) /\ Cardinality(ClassIndices) = 1)
    => LET i == CHOOSE c \in ClassIndices : TRUE
       IN /\ decl.superclass = Entry(i)
          /\ IF i > 0
             THEN /\ Cardinality(DiagsOfKind("superclass_not_first")) = 1
                  /\ DiagsOfKind("superclass_not_first") \subseteq DiagsAbout(i)
             ELSE DiagsOfKind("superclass_not_first") = {}

C4_Witness ==
  /\ lastRun.looped
  /\ decl.kind = "Class"
  /\ decl.inherited = <<"P", "A">>
  /\ decl.superclass = "A"
  /\ lastRun.diags = << <<"superclass_not_first", 1>> >>

\* C5: when the clause of a class declaration has class-typed entries of
\* several distinct canonical types, the first class-typed entry is the
\* recorded superclass, and each later class-typed entry that repeats no
\* earlier entry gets exactly one multiple-inheritance diagnostic; no other
\* entry gets one.
C5_MultipleInheritance ==
  (/\ lastRun.looped
   /\ decl.kind = "Class"
   /\ Cardinality({CanonicalType(Entry(i)) : i \in ClassIndices}) >= 2)
    => LET first == CHOOSE c \in ClassIndices : \A o \in ClassIndices : c <= o
       IN /\ decl.superclass = Entry(first)
          /\ \A i \in Indices :
                Cardinality(DiagsAbout(i) \cap DiagsOfKind("multiple_inheritance"))
                  = IF i \in ClassIndices /\ i # first /\ ~RepeatsEarlier(i)
                    THEN 1 ELSE 0

C5_Witness ==
  /\ lastRun.looped
  /\ decl.kind = "Class"
  /\ decl.inherited = <<"A", "B", "C">>
  /\ decl.superclass = "A"
  /\ lastRun.diags = << <<"multiple_inheritance", 1>>,
                        <<"multiple_inheritance", 2>> >>

\* C6: a call of checkInheritanceClause on a declaration with an empty
\* clause validates nothing, emits no diagnostic and writes no field, and
\* the declaration has no protocols, no superclass and no conformances.
C6_EmptyClauseNoOp ==
  (calls >= 1 /\ decl.inherited = <<>>)
    => /\ lastRun.validated = 0
       /\ lastRun.diags = <<>>
       /\ lastRun.writes = {}
       /\ decl.protocols = <<>>
       /\ decl.superclass = NoType
       /\ decl.conformances = <<>>

C6_Witness ==
  /\ calls >= 1
  /\ decl.inherited = <<>>
  /\ decl.kind = "Protocol"
  /\ lastRun.looped

\* The entries that validate and resolve to the error type.
ErrorIndices == {i \in Indices : Validates(i) /\ isErrorType(Entry(i))}

\* The declaration as parsed, without the entries of error type.
WithoutErrorEntries ==
  NewDecl(decl.kind, SelectSeq(decl.inherited, LAMBDA t : ~isErrorType(t)))

\* C25: an entry that resolves to the error type is skipped silently: the
\* call emits no diagnostic about it and records nothing from it (what is
\* recorded is what the clause without these entries records), for every
\* clause, clauses with several such entries included.
C25_ErrorTypeSkippedSilently ==
  lastRun.looped =>
    /\ \A i \in ErrorIndices : DiagsAbout(i) = {}
    /\ Resolved(decl) = Resolved(checkInheritanceClause(WithoutErrorEntries).d)

\* C26: after any sequence of calls, a superclass is recorded only on a
\* class or a generic parameter, it is one of the class types of the clause
\* and once recorded it is not replaced; no extension, struct, union,
\* protocol, associated type or ordinary type alias has one; the assertion
\* "Extensions can't add superclasses" and the cast to TypeAliasDecl never
\* fail.
C26_SuperclassOnlyWherePermitted ==
  /\ [](/\ decl.superclass # NoType
             => /\ decl.kind \in {"Class", "GenericParam"}
                /\ \E i \in ClassIndices : Entry(i) = decl.superclass
        /\ lastRun.trap = "none")
  /\ [][decl.superclass # NoType => decl'.superclass = decl.superclass]_vars

C26_Witness ==
  /\ calls = 2
  /\ decl.kind = "GenericParam"
  /\ decl.inherited = <<"P", "A", "B">>
  /\ decl.superclass = "A"

\* C27: a call that commits a result for a protocol, an associated type or
\* a generic parameter sets the conformance list to null conformances, as
\* many as the committed protocols; a call that commits a result for a
\* struct, a union, a class, an ordinary type alias or an extension does not
\* write the conformance list, which stays empty.
C27_NullConformancePlaceholders ==
  lastRun.writes # {} =>
    IF decl.kind \in {"Protocol", "AssocType", "GenericParam"}
    THEN /\ "conformances" \in lastRun.writes
         /\ Len(decl.conformances) = Len(decl.protocols)
         /\ \A k \in DOMAIN decl.conformances : decl.conformances[k] = "null"
    ELSE /\ "conformances" \notin lastRun.writes
         /\ decl.conformances = <<>>

C27_Witness ==
  /\ lastRun.writes = {"protocols", "conformances"}
  /\ decl.kind = "AssocType"
  /\ decl.protocols = <<"P", "Q">>
  /\ decl.conformances = <<"null", "null">>

\* =========================================================================
\* Properties of the implicit constructors (SpecCtor)
\* =========================================================================
Members(s) == structs[s]
MemberIndices(s) == 1..Len(structs[s])
UserConstructors(s) ==
  {i \in MemberIndices(s) :
     Members(s)[i].k = "Constructor" /\ ~Members(s)[i].implicit}
ImplicitConstructors(s, ICK) ==
  {i \in MemberIndices(s) :
     /\ Members(s)[i].k = "Constructor"
     /\ Members(s)[i].implicit
     /\ Members(s)[i].ick = ICK}
\* The stored variables of a struct, by member index.
StoredVars(s) ==
  {i \in MemberIndices(s) :
     Members(s)[i].k = "Var" /\ ~Members(s)[i].isProperty}
\* The constructors of a struct that take no argument.
ZeroArgConstructors(s) ==
  {i \in MemberIndices(s) :
     Members(s)[i].k = "Constructor" /\ Members(s)[i].params = <<>>}
\* The stored variables bound by a pattern binding without initializer.
UninitializedStoredVars(s) ==
  {i \in StoredVars(s) :
     \E b \in MemberIndices(s) :
        /\ Members(s)[b].k = "PatternBinding"
        /\ ~Members(s)[b].hasInit
        /\ Members(s)[i].name \in SeqToSet(Members(s)[b].vars)}
Pending == SeqToSet(pendingList)

C8_AtMostOneOfEach ==
  \A s \in StructNames :
     /\ Cardinality(ImplicitConstructors(s, "Memberwise")) <= 1
     /\ Cardinality(ImplicitConstructors(s, "Default")) <= 1

C8_Witness ==
  /\ ctorLog.lastOp = "visit"
  /\ ctorLog.finals = 2
  /\ \A s \in StructNames :
        /\ Cardinality(ImplicitConstructors(s, "Memberwise")) = 1
        /\ Cardinality(ImplicitConstructors(s, "Default")) = 1

C10_Drained ==
  /\ ctorLog.trap = "none"
  /\ \A s \in StructNames :
        /\ ctorLog.decided[s] <= 1
        /\ ctorLog.decided[s] = 1 => s \in Pending
        /\ s \in needing => s \in Pending
  /\ ctorLog.finals >= 1 =>
        /\ needing = {}
        /\ \A s \in Pending : ctorLog.decided[s] = 1

C10_DrainedExactlyOnce ==
  /\ []C10_Drained
  /\ [][(ctorLog.finals >= 1 /\ ctorLog'.finals = ctorLog.finals + 1)
          => /\ UNCHANGED <<structs, needing, pendingList, implicitFns>>
             /\ ctorLog'.decided = ctorLog.decided]_vars

C10_Witness ==
  /\ ctorLog.finals = 2
  /\ Len(pendingList) = 2
  /\ ImplicitConstructors("S1", "Default") # {}
  /\ ImplicitConstructors("S2", "Default") = {}

\* The only initializer-less stored variable of struct a has the type of
\* struct b.
OnlyNeeds(a, b) ==
  /\ Cardinality(UninitializedStoredVars(a)) = 1
  /\ \A i \in UninitializedStoredVars(a) : Members(a)[i].ty = StructTy(b)

\* Every initializer-less stored variable of struct b has a builtin type.
NeedsBuiltinsOnly(b) ==
  \A i \in UninitializedStoredVars(b) : Members(b)[i].ty.kind \in BuiltinKinds

FieldAnswer(i, want) ==
  isDefaultInitializableExpr(query.elts[i].ty, structs, want)
FieldIndices == 1..Len(query.elts)

\* C11: asked about a tuple type, isDefaultInitializable returns true iff it
\* returns true for the type of every field; when it returns true and the
\* initializer was asked for, the initializer of a tuple with exactly one
\* field, unnamed, is that field's initializer, and otherwise it is a tuple
\* expression holding the fields' initializers and names in field order;
\* asked about a protocol or protocol-composition type it returns false.
C11_TupleAndExistential ==
  answer.asked =>
    /\ query.kind = "Tuple" =>
          /\ answer.result = (\A i \in FieldIndices : FieldAnswer(i, FALSE).result)
          /\ (answer.result /\ answer.want) =>
                IF Len(query.elts) = 1 /\ query.elts[1].name = ""
                THEN answer.initializer = FieldAnswer(1, TRUE).initializer
                ELSE /\ answer.initializer.e = "Tuple"
                     /\ Len(answer.initializer.elts) = Len(query.elts)
                     /\ Len(answer.initializer.names) = Len(query.elts)
                     /\ \A i \in FieldIndices :
                           /\ answer.initializer.elts[i]
                                = FieldAnswer(i, TRUE).initializer
                           /\ answer.initializer.elts[i] # NoExpr
                           /\ answer.initializer.names[i] = query.elts[i].name
    /\ query.kind \in {"Protocol", "ProtocolComposition"} => ~answer.result

C11_Witness ==
  /\ answer.asked /\ answer.want /\ answer.result
  /\ query = TupleTy(<<Field("", StructTy("S1")),
                       Field("", TupleTy(<<Field("", BuiltinTy)>>))>>)
  /\ answer.initializer
       = TupleExpr(<<CallExpr(StructTy("S1")), ZeroValueExpr(BuiltinTy)>>,
                   <<"", "">>)

\* The constructors visible on the type under question that can be called
\* with an empty tuple: every parameter has a default value.
DefaultCallable ==
  LET ctors == lookupConstructors(query, structs)
  IN {i \in 1..Len(ctors) :
        \A k \in 1..Len(ctors[i].params) : ctors[i].params[k].hasInit}

\* C12: asked about an archetype, struct, union or bound generic struct or
\* union type, isDefaultInitializable returns true iff exactly one of the
\* constructors visible on the type can be called with an empty tuple; with
\* none or with several of them it returns false.
C12_ExactlyOneDefaultConstructor ==
  (answer.asked /\ query.kind \in ConstructorKinds)
    => answer.result = (Cardinality(DefaultCallable) = 1)

C12_Witness ==
  /\ answer.asked
  /\ query.kind = "Archetype"
  /\ Cardinality(DefaultCallable) = 2
  /\ Len(structs["S1"]) = 2
  /\ structs["S1"][1].params # structs["S1"][2].params
  /\ ~answer.result

\* =========================================================================
\* Properties of validateAttributes (SpecAttr)
\* =========================================================================
\* The type the declaration was written with, and its ownership attribute.
ParsedTy == VD.shape.ty
ParsedOwnership == attrLog.parsed \cap Ownerships
DiagsAboutAttr(a) ==
  {n \in 1..Len(attrLog.diags) : attrLog.diags[n][2] = a}

\* The kind and shape precondition of attribute a on the declaration, when
\* the declaration carries the attributes as.
MeetsPrecondition(a, as) ==
  LET d == VD.shape
  IN CASE a = "objc" -> ObjCError(d, [attrs |-> as]) = "none"
       [] a \in Ownerships -> d.kind = "Var" /\ allowsOwnership(ParsedTy)
       [] a = "iboutlet" -> d.kind = "Var" /\ isInClassContext(d)
       [] a = "ibaction" ->
            /\ d.kind = "Func" /\ isClassDeclContext(d)
            /\ ~d.isStatic /\ ~d.isGetterOrSetter /\ d.resultIsEmptyTuple
       [] a = "infix" -> d.isOperator /\ d.kind = "Func" /\ isBinaryOperator(d)
       [] a \in {"postfix", "prefix"} ->
            d.isOperator /\ d.kind = "Func" /\ isUnaryOperator(d)
       [] a = "assignment" ->
            /\ d.kind = "Func" /\ d.isOperator
            /\ d.numArguments >= 1 /\ d.firstParamLValue
       [] a = "conversion" ->
            /\ d.kind = "Func" /\ isInstanceMember(d)
            /\ (ParsedTy.kind = "Error" \/ d.allDefaulted)
       [] a = "force_inline" -> d.kind = "Func" /\ ~d.curried /\ ~d.generic
       [] a = "class_protocol" -> d.kind = "Protocol"
       [] OTHER -> FALSE

\* C13: after validateAttributes on a variable written with a weak or
\* unowned attribute, if the variable's type does not allow ownership the
\* ownership attribute is cleared, exactly one diagnostic was emitted and
\* the type is the one written; if the type allows ownership the attribute
\* is still set and the type is the reference-storage type of the type
\* written.
C13_OwnershipOnVariable ==
  (attrLog.calls = 1 /\ VD.shape.kind = "Var" /\ ParsedOwnership # {})
    => IF ~allowsOwnership(ParsedTy)
       THEN /\ VD.attrs \cap Ownerships = {}
            /\ Len(attrLog.diags) = 1
            /\ VD.ty = ParsedTy
       ELSE /\ ParsedOwnership \subseteq VD.attrs
            /\ \E how \in ParsedOwnership :
                  VD.ty = ReferenceStorageOf(ParsedTy, how)

\* C14: after validateAttributes has returned, every attribute still set on
\* the declaration meets its kind and shape precondition.
C14_NoViolatedAttributeRemains ==
  attrLog.calls = 1 => \A a \in VD.attrs : MeetsPrecondition(a, VD.attrs)

\* C15: every attribute the declaration was written with whose precondition
\* is violated has a diagnostic from the call, whatever other attribute was
\* diagnosed before it in the same call.
C15_EveryViolationDiagnosed ==
  attrLog.calls = 1 =>
    \A a \in attrLog.parsed :
       ~MeetsPrecondition(a, attrLog.parsed) => DiagsAboutAttr(a) # {}

\* =========================================================================
\* Properties of checkObjCConformances (SpecWalk, SpecWalkFair)
\* =========================================================================
\* The protocols whose conformance is handed to the walk by a list of pairs.
ConformancesIn(entries) ==
  {entries[i].proto : i \in {k \in 1..Len(entries) :
                                entries[k].how = "conformance"}}

\* The protocols whose non-null conformance can be reached from the class's
\* lists through inherited conformances.
RECURSIVE ReachableFrom(_)
ReachableFrom(ps) ==
  LET more == ps \cup UNION {ConformancesIn(walk.inherited[p]) : p \in ps}
  IN IF more = ps THEN ps ELSE ReachableFrom(more)
Reachable == ReachableFrom(ConformancesIn(walk.roots))

\* C16: when checkObjCConformances has returned, every witness of every
\* reachable non-null conformance whose protocol is ObjC is marked ObjC, the
\* walk marked witnesses for no conformance that is unreachable or whose
\* protocol is not ObjC, and nothing else is marked; with ObjC P listed by
\* the class and inheriting ObjC Q, the witnesses of the conformance to P
\* and of the nested conformance to Q are marked.
C16_BridgingPropagation ==
  walk.pc = "done" =>
    /\ \A p \in Reachable \cap walk.objc :
          WitnessesOf(p) \subseteq walk.isObjC /\ p \in walk.markedFor
    /\ walk.markedFor \subseteq Reachable \cap walk.objc
    /\ walk.isObjC = UNION {WitnessesOf(p) : p \in walk.markedFor}
    /\ (/\ {"P", "Q"} \subseteq walk.objc
        /\ "P" \in ConformancesIn(walk.roots)
        /\ "Q" \in ConformancesIn(walk.inherited["P"]))
         => WitnessesOf("P") \cup WitnessesOf("Q") \subseteq walk.isObjC

C16_Witness ==
  /\ walk.pc = "done"
  /\ walk.roots = <<ConformanceEntry("P", "conformance")>>
  /\ walk.objc = {"Q", "R"}
  /\ walk.inherited["P"] = <<ConformanceEntry("Q", "conformance")>>
  /\ walk.inherited["Q"] = <<ConformanceEntry("R", "null")>>
  /\ walk.isObjC = {"g", "h"}

\* What a walk visiting every reachable conformance once would mark.
MarkedVisitingOnce == UNION {WitnessesOf(p) : p \in Reachable \cap walk.objc}

\* C17: the walk ends, whatever the graph of inherited conformances, also
\* when a nested conformance is reached along several paths and so visited
\* several times; it ends with the declarations marked that one visit of
\* each reachable conformance would mark.
C17_WalkEnds ==
  <>(walk.pc = "done" /\ walk.pending = <<>>
       /\ walk.isObjC = MarkedVisitingOnce)

C17_Witness ==
  /\ walk.pc = "done"
  /\ walk.visits["R"] >= 3
  /\ walk.visits["Q"] = 2
  /\ "R" \in walk.objc
  /\ walk.isObjC = {"k"}

\* ------------------------------------------------------------- SpecPass
AllDecls ==
  {unit[n].decl : n \in UnitNames}
  \cup UNION {SeqToSet(unit[n].members) : n \in UnitNames}

Aligned(d) ==
  /\ Len(d.protocols) = Len(d.conformances)
  /\ \A i \in 1..Len(d.protocols) :
       d.conformances[i] \in {"null", d.protocols[i]}

\* C18 as stated: between and after the passes the protocol list and the
\* conformance list of every type declaration and extension have the same
\* length, the conformance at an index being the one for the protocol at
\* that index.
C18_ListsAlwaysAligned == \A d \in AllDecls : Aligned(d)

VisitedLater(n) == n \in passLog.later

\* C18, amended: the conformance list of a declaration is empty until a
\* pass records conformances, and from then on it has the length of the
\* protocol list, the conformance at an index being the one for the
\* protocol at that index (or null); after the conformance pass of a
\* struct, union, class or extension and its members the lists are aligned.
C18_AlignedOnceRecorded ==
  /\ \A d \in AllDecls : d.conformances = <<>> \/ Aligned(d)
  /\ \A n \in UnitNames :
       VisitedLater(n) /\ unit[n].decl.kind # "Protocol"
         => /\ Aligned(unit[n].decl)
            /\ \A i \in DOMAIN unit[n].members : Aligned(unit[n].members[i])

C18_Witness ==
  \E n \in UnitNames :
    /\ VisitedLater(n)
    /\ Len(unit[n].decl.protocols) = 2
    /\ "null" \in SeqToSet(unit[n].decl.conformances)
    /\ unit[n].decl.conformances # <<"null", "null">>

\* C19: the conformance pass of a declaration runs only once every
\* module-scope declaration of the unit has had its structural pass, and a
\* visit in FirstPass mode asks the conformance checker nothing and writes no
\* conformance list, for the declaration and for its members.
C19_NoConformanceWorkInFirstPass ==
  /\ ~passLog.early
  /\ \A q \in passLog.asked : q.mode # "FirstPass"
  /\ \A w \in passLog.wrote : w.mode # "FirstPass"

C19_Witness ==
  /\ passLog.first = {"D1"}
  /\ passLog.later = {"D1"}
  /\ unit["D1"].members # <<>>
  /\ \E q \in passLog.asked : q.member = 1 /\ q.mode = "SecondPass"
  /\ \E q \in passLog.asked : q.member = 0 /\ q.mode = "SecondPass"

\* C28: a conformance pass over a declaration whose protocol list
\* inheritance resolution has populated leaves that list as it is: the
\* protocols gathered are the same in the same order, the list is not
\* replaced and the assertion "Protocol list changed?" does not fail, with
\* duplicate entries, overlapping compositions and entries that failed
\* validation in the clause.
C28_ProtocolListVerified ==
  /\ [](~passLog.trap /\ ~passLog.replaced)
  /\ [][\A n \in UnitNames :
          /\ unit[n].decl.protocols # <<>>
               => unit'[n].decl.protocols = unit[n].decl.protocols
          /\ \A i \in DOMAIN unit[n].members :
               unit[n].members[i].protocols # <<>>
                 => unit'[n].members[i].protocols
                      = unit[n].members[i].protocols]_vars

C28_Witness ==
  /\ passLog.first = {"D1"}
  /\ passLog.later = {"D1"}
  /\ unit["D1"].decl.inherited = <<"PQ", "P">>
  /\ unit["D1"].decl.protocols = <<"P", "Q">>
  /\ Len(unit["D1"].decl.conformances) = 2

\* ------------------------------------------------------------- SpecBind
ChecksIn(mode) ==
  {i \in DOMAIN bindLog.checks : bindLog.checks[i].mode = mode}

\* C20: no initializer expression of a pattern binding is type-checked
\* during FirstPass; over FirstPass followed by SecondPass on a module-scope
\* binding with a written initializer, the initializer is type-checked at
\* most once, and only in SecondPass.
C20_InitializerCheckedOnceInSecondPass ==
  /\ ChecksIn("FirstPass") = {}
  /\ PBD.context = "Module" /\ PBD.written
       => /\ Len(bindLog.checks) <= 1
          /\ \A i \in DOMAIN bindLog.checks :
               /\ bindLog.checks[i].mode = "SecondPass"
               /\ bindLog.checks[i].expr = "written"

C20_Witness ==
  /\ PBD.context = "Module"
  /\ PBD.written
  /\ ~DelayCheckingPattern(PBD)
  /\ bindLog.passes = <<"FirstPass", "SecondPass">>
  /\ bindLog.checks = <<TypeCheckExpression("written", "SecondPass")>>

\* The visits that resolve the binding have been made.
ResolvingPassDone ==
  IF PBD.context = "Module" THEN bindLog.passes = <<"FirstPass", "SecondPass">>
  ELSE bindLog.passes = <<"Single">>

\* The binding was skipped by the visits made in this mode.
SkippedIn(mode) ==
  /\ ChecksIn(mode) = {}
  /\ mode \notin SeqToSet(bindLog.patterns)
  /\ mode \notin SeqToSet(bindLog.boundVars)

\* C23: a FirstPass visit skips the binding entirely (no type-check of the
\* pattern, none of an initializer, no visit of its variables by
\* visitBoundVars and so by validateAttributes) when the binding is typed,
\* without initializer and at module scope, or when its module-scope pattern
\* is delayed (the translation unit is neither Library nor SIL).
C23_FirstPassSkipsBinding ==
  (/\ "FirstPass" \in SeqToSet(bindLog.passes)
   /\ \/ PBD.typed /\ ~PBD.written /\ PBD.context = "Module"
      \/ DelayCheckingPattern(PBD))
    => SkippedIn("FirstPass")

\* C24: a typed, non-property binding without initializer outside a type
\* context, its pattern type-checking, has after its resolving pass
\* (SecondPass at module scope, Single otherwise) either the synthesized
\* default initializer or a diagnostic, in Library translation units as in
\* the others.
C24_DefaultInitializationAttempted ==
  (/\ ResolvingPassDone
   /\ PBD.typed /\ ~PBD.written /\ ~PBD.property /\ PBD.context # "Type")
    => PBD.init = "synthesized" \/ bindLog.diagnosed # <<>>

\* ------------------------------------------------------------ SpecProto
\* The protocols a protocol inherits directly.
DirectlyInherited(p) == SeqToSet(InheritedProtocols(protocolDecls[p].inherited))

DiagnosedRefinement(p) ==
  \E i \in DOMAIN protoLog.diags :
     /\ protoLog.diags[i][1] = "objc_protocol_inherits_non_objc_protocol"
     /\ protoLog.diags[i][2] = p

\* C29: once every protocol has been visited, a protocol marked isObjC
\* inherits directly only protocols marked isObjC; a protocol with the objc
\* attribute that inherits directly a protocol not marked isObjC has been
\* diagnosed and is not marked.
C29_ObjCProtocolRefinesObjCOnly ==
  protoLog.visited = ProtocolNames =>
    \A p \in ProtocolNames :
       /\ protocolDecls[p].isObjC
            => \A q \in DirectlyInherited(p) : protocolDecls[q].isObjC
       /\ ("objc" \in protocolDecls[p].parsed
           /\ \E q \in DirectlyInherited(p) : ~protocolDecls[q].isObjC)
            => DiagnosedRefinement(p) /\ ~protocolDecls[p].isObjC

\* C30: a visited protocol is marked isObjC only if it requires a class; a
\* protocol whose objc attribute the attribute validator rejected and
\* cleared is not marked; the mark and the attribute agree.
C30_MarkAgreesWithAttribute ==
  \A p \in protoLog.visited :
     /\ protocolDecls[p].isObjC => "class_protocol" \in protocolDecls[p].attrs
     /\ protocolDecls[p].isObjC <=> "objc" \in protocolDecls[p].attrs

\* ----------------------------------------------------------- SpecMember
\* A type of the member failed validation.
Malformed(m) ==
  CASE m.kind = "Subscript" -> m.elementFails \/ m.patternFails
    [] m.kind = "Constructor" -> m.patternFails
    [] m.kind = "UnionElement" -> m.arg = "fails" \/ m.result = "fails"

\* The structural visit of the members is over.
StructuralVisitOver ==
  memberLog.mode = "SecondPass" \/ memberLog.next = Len(container) + 1

\* C21: a malformed subscript, constructor or union element is left with
\* the error type or with its invalid flag set by its structural visit, and
\* no member is left untyped; the members after a malformed one are visited
\* all the same.
C21_MalformedMarkedAndSiblingsVisited ==
  /\ \A i \in memberLog.visited :
        /\ container[i].type # "none" \/ container[i].invalid
        /\ Malformed(container[i])
             => container[i].type = "Error" \/ container[i].invalid
  /\ StructuralVisitOver => memberLog.visited = DOMAIN container

====
